---------------------------- MODULE Spec2Model ----------------------------
(***************************************************************************)
(* KULTA progressive-delivery controller: the reconcile orchestrator, the  *)
(* per-strategy status computers, the replica and traffic planners and the *)
(* validator, as one state machine over the orchestrator's object store.   *)
(*                                                                         *)
(* One Rollout object is modelled.  Its spec is fixed at creation (Init    *)
(* draws it from a small catalogue, RolloutSpecs); the user may set or     *)
(* remove the promote annotation; the clock advances; leadership changes;  *)
(* and Reconcile runs the whole reconcile function once, against what the  *)
(* object store holds, with the answers of the external collaborators      *)
(* (metrics backend, advisor, API server, event sink) drawn from small     *)
(* sets.                                                                   *)
(***************************************************************************)
EXTENDS Integers, Sequences, FiniteSets, TLC

VARIABLES
    ctx,          \* the controller Context: [leaderElection] (leader_state is Some)
    spec,         \* the Rollout spec (never changed after creation)
    annotations,  \* metadata.annotations: [promote: "absent" | "true" | "false"]
    status,       \* the Rollout status subresource (NoStatus when unset)
    replicasets,  \* replica sets of the rollout: role -> replica count or Absent
    route,        \* the HTTPRoute named by trafficRouting: [exists, first, second]
    now,          \* the instant the injected Clock returns
    wall,         \* the instant chrono::Utc::now() returns
    isLeader,     \* LeaderState: the atomic bool
    advisorCache, \* AdvisorCache: the endpoints an HttpAdvisor is cached for
    last,         \* the reconcile just run: what it observed, did and returned
                  \* (NoRecord once anything else has happened since)
    abTesting,    \* spec.strategy.ab_testing, the ABStrategy (NoAbTesting when unset)
    concludeExperiment, \* the kulta.io/conclude-experiment annotation is present
    evaluation,   \* the ABExperimentEvaluation last returned, with the query
                  \* answers it was given (NoEvaluation when none was made)
    plan,         \* a call of the replica planner: its arguments, the build of
                  \* the controller and, once made, what the call gave
    emission,     \* a call of emit_status_change_event: the two statuses, the
                  \* sink's answer and, once made, the events sent
    resolving,    \* the AdvisorCache and the calls of resolve_advisor under way,
                  \* each at one of its steps
    conversion,   \* a Rollout object under conversion: the object first sent,
                  \* the object as it is now, the versions it went through and
                  \* the converter used
    handling,     \* a call of the A/B handler's compute_next_status: the rollout
                  \* it is given, the two clocks and, once made, the status it gave
    flight        \* a reconcile under way, between two of its requests: what it
                  \* is going to send, how much of it is sent, and whether it
                  \* sent a write while its instance was not the leader

vars == <<ctx, spec, annotations, status, replicasets, route, now, wall, isLeader,
          advisorCache, last, abTesting, concludeExperiment, evaluation, plan,
          emission, resolving,
          conversion,
          handling, flight>>

\* the state of the reconcile loop
mainVars == <<ctx, spec, annotations, status, replicasets, route, now, wall, isLeader,
              advisorCache, last>>

\* the part of the state only the A/B evaluator reads or writes
abVars == <<abTesting, concludeExperiment, evaluation>>

\* the part of the state only the replica planner on its own reads or writes
plannerVars == <<plan>>

\* the part of the state only the event emitter on its own reads or writes
eventVars == <<emission>>

\* the part of the state only the advisor resolver on its own reads or writes
resolverVars == <<resolving>>

\* the part of the state only the version converters on their own read or write
converterVars == <<conversion>>

\* the part of the state only the A/B handler on its own reads or writes
abHandlerVars == <<handling>>

\* the part of the state only the reconcile taken request by request reads or writes
gateVars == <<flight>>

\* the state the reconcile loop leaves alone
sideVars == <<abVars, plannerVars, eventVars, resolverVars, converterVars, abHandlerVars, gateVars>>

\* the state the A/B evaluator on its own leaves alone, besides mainVars
besideAbVars == <<plannerVars, eventVars, resolverVars, converterVars, abHandlerVars, gateVars>>

\* the state the replica planner on its own leaves alone
besidePlannerVars == <<mainVars, abVars, eventVars, resolverVars, converterVars, abHandlerVars, gateVars>>

\* the state the event emitter on its own leaves alone
besideEventVars == <<mainVars, abVars, plannerVars, resolverVars, converterVars, abHandlerVars, gateVars>>

\* the state the advisor resolver on its own leaves alone
besideResolverVars == <<mainVars, abVars, plannerVars, eventVars, converterVars, abHandlerVars, gateVars>>

\* the state the version converters on their own leave alone
besideConverterVars == <<mainVars, abVars, plannerVars, eventVars, resolverVars, abHandlerVars, gateVars>>

\* the state the A/B handler on its own leaves alone
besideAbHandlerVars == <<mainVars, abVars, plannerVars, eventVars, resolverVars, converterVars, gateVars>>

\* the state the reconcile taken request by request leaves alone, besides mainVars
besideGateVars == <<abVars, plannerVars, eventVars, resolverVars, converterVars, abHandlerVars>>

---------------------------------------------------------------------------
(* Bounds of the model *)

\* the last instant the clock reaches (seconds after the rollout's creation)
MaxTime == 61

\* the instants at which something is looked at: those of the end-to-end
\* scenarios, then every second from the auto-promotion boundary on
TimePoints == {t \in 0..MaxTime : t \in {0, 10, 35, 36} \/ t >= 60}

---------------------------------------------------------------------------
(* Option values.  TLC compares only like with like, so an Option<i32> or  *)
(* an Option<String> holding a timestamp is a record, and an Option<Phase> *)
(* is the phase name or "None".                                            *)

None == [some |-> FALSE, v |-> 0]
Some(x) == [some |-> TRUE, v |-> x]
UnwrapOr(o, d) == IF o.some THEN o.v ELSE d

\* DateTime::to_rfc3339 and DateTime::parse_from_rfc3339.  A timestamp text
\* is held as the instant it spells; a text that spells none is Malformed,
\* and reading it fails
Malformed == 0 - 1
ToRfc3339(t) == [some |-> TRUE, v |-> t]
ParseRfc3339(o) == IF o.some /\ o.v # Malformed THEN [some |-> TRUE, v |-> o.v] ELSE None

\* e evaluated once and handed to Op
With(e, Op(_)) == CHOOSE x \in {Op(v) : v \in {e}} : TRUE

Msg(text, a, b) == [text |-> text, a |-> a, b |-> b]
NoMsg == Msg("", 0, 0)

---------------------------------------------------------------------------
(* crd/rollout.rs: the types *)

Phases == {"Initializing", "Progressing", "Paused", "Preview", "Experimenting",
           "Concluded", "Completed", "Failed"}

\* RolloutStatus::default(), and the absent status
DefaultStatus ==
    [some |-> TRUE,
     replicas |-> 0,
     currentStepIndex |-> None,
     currentWeight |-> None,
     phase |-> "None",
     message |-> NoMsg,
     pauseStartTime |-> None,
     stepStartTime |-> None,
     progressStartedAt |-> None,
     abStartedAt |-> None,
     abConclusionReason |-> "None"]

NoStatus == [DefaultStatus EXCEPT !.some = FALSE]

\* a duration string "<n><unit>"
Dur(n, unit) == [some |-> TRUE, n |-> n, unit |-> unit]
NoDur == [some |-> FALSE, n |-> 0, unit |-> "s"]

\* a CanaryStep: setWeight: Option<i32>, pause: Option<PauseDuration>
Step(w, hasPause, d) == [setWeight |-> w, pause |-> hasPause, duration |-> d]

\* a maxSurge / maxUnavailable string: "<n>" or "<n>%"
Surge(n, pct) == [some |-> TRUE, n |-> n, pct |-> pct]
NoSurge == [some |-> FALSE, n |-> 0, pct |-> FALSE]

AdvisorLevels == {"Off", "Context", "Advised", "Planned", "Driven"}

\* FailurePolicy; Pause is the default
FailurePolicies == {"Pause", "Continue", "Rollback"}

BaseSpec ==
    [name |-> "base",
     replicas |-> 10,
     strategies |-> {"canary"},
     steps |-> <<>>,
     canaryService |-> "app-canary",
     stableService |-> "app-stable",
     analysis |-> FALSE,
     failurePolicy |-> "Pause",
     warmupDuration |-> NoDur,
     canaryTrafficRouting |-> FALSE,
     bgTrafficRouting |-> FALSE,
     httpRoute |-> "route",
     autoPromotionEnabled |-> None,
     autoPromotionSeconds |-> None,
     maxSurge |-> NoSurge,
     maxUnavailable |-> NoSurge,
     progressDeadlineSeconds |-> None,
     advisorLevel |-> "Off",
     advisorEndpoint |-> FALSE]


\* the Rollout specs a user may create
RolloutSpecs ==
    { \* canary whose second step is a bare pause (a step without setWeight)
      [BaseSpec EXCEPT !.name = "canary-bare-pause",
          !.steps = <<Step(Some(20), FALSE, NoDur), Step(None, TRUE, Dur(30, "s")),
                      Step(Some(50), FALSE, NoDur), Step(Some(100), FALSE, NoDur)>>],
      \* canary with a timed pause on its first step, routed through an HTTPRoute
      [BaseSpec EXCEPT !.name = "canary-timed",
          !.steps = <<Step(Some(20), TRUE, Dur(30, "s")), Step(Some(50), FALSE, NoDur),
                      Step(Some(100), FALSE, NoDur)>>,
          !.canaryTrafficRouting = TRUE],
      \* canary reaching 100% before its last step
      [BaseSpec EXCEPT !.name = "canary-peak",
          !.steps = <<Step(Some(100), FALSE, NoDur), Step(Some(50), FALSE, NoDur)>>],
      \* canary with analysis, an advisor, a progress deadline and an
      \* indefinite pause
      [BaseSpec EXCEPT !.name = "canary-analysis",
          !.steps = <<Step(Some(20), TRUE, NoDur), Step(Some(100), FALSE, NoDur)>>,
          !.analysis = TRUE,
          !.progressDeadlineSeconds = Some(35),
          !.advisorLevel = "Advised", !.advisorEndpoint = TRUE],
      \* blue-green with auto-promotion after 60 s, routed
      [BaseSpec EXCEPT !.name = "bluegreen-auto", !.strategies = {"blue_green"},
          !.autoPromotionEnabled = Some(TRUE), !.autoPromotionSeconds = Some(60),
          !.bgTrafficRouting = TRUE],
      \* blue-green promoted by hand, with a progress deadline
      [BaseSpec EXCEPT !.name = "bluegreen-manual", !.strategies = {"blue_green"},
          !.progressDeadlineSeconds = Some(35)],
      [BaseSpec EXCEPT !.name = "simple", !.strategies = {"simple"}],
      \* canary with analysis after a warmup of 30 s, a failure policy of
      \* Rollback, a timed pause and then an indefinite one
      [BaseSpec EXCEPT !.name = "canary-warmup",
          !.steps = <<Step(Some(20), TRUE, Dur(30, "s")), Step(Some(50), TRUE, NoDur)>>,
          !.analysis = TRUE,
          !.failurePolicy = "Rollback",
          !.warmupDuration = Dur(30, "s")],
      [BaseSpec EXCEPT !.name = "ab", !.strategies = {"ab_testing"}],
      \* a spec whose strategy object has no sub-object set
      [BaseSpec EXCEPT !.name = "no-strategy", !.strategies = {}],
      [BaseSpec EXCEPT !.name = "negative-replicas", !.strategies = {"simple"},
          !.replicas = 0 - 1] }

\* the Rollout as a reconcile observes it
Rollout(s, a, st) == [spec |-> s, annotations |-> a, status |-> st]

HasCanary(r) == "canary" \in r.spec.strategies
HasBlueGreen(r) == "blue_green" \in r.spec.strategies
HasSimple(r) == "simple" \in r.spec.strategies
HasAbTesting(r) == "ab_testing" \in r.spec.strategies

---------------------------------------------------------------------------
(* rollout/validation.rs *)

\* parse_duration: the seconds of "<n><unit>", or None
ParseDuration(d) ==
    IF ~d.some \/ d.n < 0 THEN None
    ELSE IF d.n = 0 THEN None
    ELSE IF d.unit = "s" THEN (IF d.n <= 86400 THEN Some(d.n) ELSE None)
    ELSE IF d.unit = "m" THEN (IF d.n <= 1440 THEN Some(d.n * 60) ELSE None)
    ELSE IF d.unit = "h" THEN (IF d.n <= 168 THEN Some(d.n * 3600) ELSE None)
    ELSE None

\* is_valid_surge_format
IsValidSurgeFormat(v) ==
    IF v.pct THEN v.n >= 0 /\ v.n <= 100 ELSE v.n >= 0

\* a step check that takes a step without setWeight for a valid one
FirstBadStep_WeightOptional(steps) ==
    LET bad == {i \in 1..Len(steps) :
                   \/ (steps[i].setWeight.some
                          /\ (steps[i].setWeight.v < 0 \/ steps[i].setWeight.v > 100))
                   \/ (steps[i].pause /\ steps[i].duration.some
                          /\ ~ParseDuration(steps[i].duration).some)}
    IN IF bad = {} THEN 0 ELSE CHOOSE i \in bad : \A j \in bad : i <= j

\* the first step the per-step checks reject, or 0
FirstBadStep(steps) ==
    LET bad == {i \in 1..Len(steps) :
                   \/ ~steps[i].setWeight.some
                   \/ steps[i].setWeight.v < 0 \/ steps[i].setWeight.v > 100
                   \/ (steps[i].pause /\ steps[i].duration.some
                          /\ ~ParseDuration(steps[i].duration).some)}
    IN IF bad = {} THEN 0 ELSE CHOOSE i \in bad : \A j \in bad : i <= j

\* a validator that does not look at the replica count
ValidateReplicas_Unchecked(r) == "ok"

\* validate_rollout, lines 24-29: the replica count
ValidateReplicas(r) ==
    IF r.spec.replicas < 0 THEN "replicas must be >= 0" ELSE "ok"

\* validate_rollout, lines 32-87: the canary strategy, when present
ValidateCanary(r) ==
    IF ~HasCanary(r) THEN "ok"
    ELSE IF r.spec.canaryService = "" THEN "canaryService cannot be empty"
    ELSE IF r.spec.stableService = "" THEN "stableService cannot be empty"
    ELSE IF Len(r.spec.steps) = 0 THEN "steps must have at least one step"
    ELSE IF FirstBadStep(r.spec.steps) # 0 THEN
        LET st == r.spec.steps[FirstBadStep(r.spec.steps)]
        IN IF ~st.setWeight.some THEN "setWeight is required"
           ELSE IF st.setWeight.v < 0 \/ st.setWeight.v > 100 THEN "setWeight must be 0-100"
           ELSE "pause.duration invalid"
    ELSE IF r.spec.canaryTrafficRouting /\ r.spec.httpRoute = ""
        THEN "httpRoute cannot be empty"
    ELSE "ok"

\* validate_rollout, lines 90-115: maxSurge, maxUnavailable, progressDeadlineSeconds
ValidateV1beta1(r) ==
    IF r.spec.maxSurge.some /\ ~IsValidSurgeFormat(r.spec.maxSurge)
        THEN "maxSurge invalid format"
    ELSE IF r.spec.maxUnavailable.some /\ ~IsValidSurgeFormat(r.spec.maxUnavailable)
        THEN "maxUnavailable invalid format"
    ELSE IF r.spec.progressDeadlineSeconds.some /\ r.spec.progressDeadlineSeconds.v < 0
        THEN "progressDeadlineSeconds must be >= 0"
    ELSE "ok"

\* validate_rollout: "ok" or the reason of the first rejection
ValidateRollout(r) ==
    IF ValidateReplicas(r) # "ok" THEN ValidateReplicas(r)
    ELSE IF ValidateCanary(r) # "ok" THEN ValidateCanary(r)
    ELSE ValidateV1beta1(r)

---------------------------------------------------------------------------
(* rollout/status.rs *)

MIN_REQUEUE == 5
MAX_REQUEUE == 300
DEFAULT_REQUEUE == 30

\* has_promote_annotation: the annotation is present with the value "true"
HasPromoteAnnotation(r) == r.annotations.promote = "true"

\* a deadline check that fires when the elapsed time only equals the deadline
IsProgressDeadlineExceeded_AtDeadline(st, deadline_seconds, t) ==
    IF st.phase \notin {"Progressing", "Preview"} THEN FALSE
    ELSE IF ~st.progressStartedAt.some THEN FALSE
    ELSE IF ~ParseRfc3339(st.progressStartedAt).some THEN FALSE
    ELSE t - ParseRfc3339(st.progressStartedAt).v >= deadline_seconds

\* is_progress_deadline_exceeded
IsProgressDeadlineExceeded(st, deadline_seconds, t) ==
    IF st.phase \notin {"Progressing", "Preview"} THEN FALSE
    ELSE IF ~st.progressStartedAt.some THEN FALSE
    ELSE IF ~ParseRfc3339(st.progressStartedAt).some THEN FALSE
    ELSE t - ParseRfc3339(st.progressStartedAt).v > deadline_seconds

\* initialize_rollout_status
InitializeRolloutStatus(r, t) ==
    IF HasSimple(r) THEN
        [DefaultStatus EXCEPT !.phase = "Completed",
            !.message = Msg("Simple rollout completed: all replicas updated", 0, 0)]
    ELSE IF HasBlueGreen(r) THEN
        [DefaultStatus EXCEPT !.phase = "Preview",
            !.message = Msg("Blue-green rollout: preview environment ready", 0, 0),
            !.pauseStartTime = ToRfc3339(t)]
    ELSE IF ~HasCanary(r) THEN DefaultStatus
    ELSE
        LET steps == r.spec.steps
            first_step_weight ==
                IF Len(steps) > 0 THEN UnwrapOr(steps[1].setWeight, 0) ELSE 0
        IN [DefaultStatus EXCEPT
               !.currentStepIndex = Some(0),
               !.currentWeight = Some(first_step_weight),
               !.phase = "Progressing",
               !.message = Msg("Starting canary rollout at step 0", first_step_weight, 0),
               !.pauseStartTime =
                   IF Len(steps) > 0 /\ steps[1].pause THEN ToRfc3339(t) ELSE None,
               !.progressStartedAt = ToRfc3339(t)]

\* a progression check that takes a pause without duration for an elapsed one
ShouldProgressToNextStep_IndefiniteElapses(r, t) ==
    LET st == r.status IN
    IF ~st.some THEN FALSE
    ELSE IF st.phase = "Paused" THEN FALSE
    ELSE IF ~st.currentStepIndex.some THEN FALSE
    ELSE IF ~HasCanary(r) THEN FALSE
    ELSE IF st.currentStepIndex.v < 0 \/ st.currentStepIndex.v >= Len(r.spec.steps) THEN FALSE
    ELSE
        LET current_step == r.spec.steps[st.currentStepIndex.v + 1] IN
        IF current_step.pause THEN
            IF HasPromoteAnnotation(r) THEN TRUE
            ELSE IF ~current_step.duration.some THEN TRUE
            ELSE /\ ParseDuration(current_step.duration).some
                 /\ st.pauseStartTime.some
                 /\ ParseRfc3339(st.pauseStartTime).some
                 /\ t - ParseRfc3339(st.pauseStartTime).v
                        >= ParseDuration(current_step.duration).v
        ELSE TRUE

\* a progression check that takes a step index past the last step for a step
\* without pause
ShouldProgressToNextStep_PastLastStep(r, t) ==
    LET st == r.status IN
    IF ~st.some THEN FALSE
    ELSE IF st.phase = "Paused" THEN FALSE
    ELSE IF ~st.currentStepIndex.some THEN FALSE
    ELSE IF ~HasCanary(r) THEN FALSE
    ELSE IF st.currentStepIndex.v < 0 \/ st.currentStepIndex.v >= Len(r.spec.steps) THEN TRUE
    ELSE
        LET current_step == r.spec.steps[st.currentStepIndex.v + 1] IN
        IF current_step.pause THEN
            IF HasPromoteAnnotation(r) THEN TRUE
            ELSE /\ current_step.duration.some
                 /\ ParseDuration(current_step.duration).some
                 /\ st.pauseStartTime.some
                 /\ ParseRfc3339(st.pauseStartTime).some
                 /\ t - ParseRfc3339(st.pauseStartTime).v
                        >= ParseDuration(current_step.duration).v
        ELSE TRUE

\* should_progress_to_next_step
ShouldProgressToNextStep(r, t) ==
    LET st == r.status IN
    IF ~st.some THEN FALSE
    ELSE IF st.phase = "Paused" THEN FALSE
    ELSE IF ~st.currentStepIndex.some THEN FALSE
    ELSE IF ~HasCanary(r) THEN FALSE
    ELSE IF st.currentStepIndex.v < 0 \/ st.currentStepIndex.v >= Len(r.spec.steps) THEN FALSE
    ELSE
        LET current_step == r.spec.steps[st.currentStepIndex.v + 1] IN
        IF current_step.pause THEN
            IF HasPromoteAnnotation(r) THEN TRUE
            ELSE /\ current_step.duration.some
                 /\ ParseDuration(current_step.duration).some
                 /\ st.pauseStartTime.some
                 /\ ParseRfc3339(st.pauseStartTime).some
                 /\ t - ParseRfc3339(st.pauseStartTime).v
                        >= ParseDuration(current_step.duration).v
        ELSE TRUE

\* advance_to_next_step that never writes phase Completed: the rollout walks
\* through its steps and stays Progressing
AdvanceToNextStep_StaysProgressing(r, t) ==
    IF ~r.status.some THEN InitializeRolloutStatus(r, t)
    ELSE
        LET current_status == r.status
            next_step_index == UnwrapOr(current_status.currentStepIndex, 0 - 1) + 1
        IN
        IF ~HasCanary(r) THEN current_status
        ELSE IF next_step_index >= Len(r.spec.steps) THEN
            [current_status EXCEPT
                !.currentStepIndex = Some(next_step_index),
                !.currentWeight = Some(100),
                !.phase = "Progressing"]
        ELSE
            LET next_step == r.spec.steps[next_step_index + 1]
                next_weight == UnwrapOr(next_step.setWeight, 0)
            IN [current_status EXCEPT
                   !.currentStepIndex = Some(next_step_index),
                   !.currentWeight = Some(next_weight),
                   !.phase = "Progressing",
                   !.message = Msg("Advanced to step", next_step_index, next_weight),
                   !.pauseStartTime = IF next_step.pause THEN ToRfc3339(t) ELSE None]

\* advance_to_next_step
AdvanceToNextStep(r, t) ==
    IF ~r.status.some THEN InitializeRolloutStatus(r, t)
    ELSE
        LET current_status == r.status
            next_step_index == UnwrapOr(current_status.currentStepIndex, 0 - 1) + 1
        IN
        IF ~HasCanary(r) THEN current_status
        ELSE IF next_step_index >= Len(r.spec.steps) THEN
            [current_status EXCEPT
                !.currentStepIndex = Some(next_step_index),
                !.currentWeight = Some(100),
                !.phase = "Completed",
                !.message = Msg("Rollout completed: 100% traffic to canary", 0, 0)]
        ELSE
            LET next_step == r.spec.steps[next_step_index + 1]
                next_weight == UnwrapOr(next_step.setWeight, 0)
            IN [current_status EXCEPT
                   !.currentStepIndex = Some(next_step_index),
                   !.currentWeight = Some(next_weight),
                   !.phase = IF next_weight = 100 THEN "Completed" ELSE "Progressing",
                   !.message =
                       IF next_weight = 100
                       THEN Msg("Rollout completed: 100% traffic to canary", 0, 0)
                       ELSE Msg("Advanced to step", next_step_index, next_weight),
                   !.pauseStartTime = IF next_step.pause THEN ToRfc3339(t) ELSE None]

\* compute_desired_status
ComputeDesiredStatus(r, t) ==
    IF ~r.status.some THEN InitializeRolloutStatus(r, t)
    ELSE IF ShouldProgressToNextStep(r, t) THEN AdvanceToNextStep(r, t)
    ELSE r.status

Max(a, b) == IF a >= b THEN a ELSE b
Min(a, b) == IF a <= b THEN a ELSE b

\* calculate_requeue_interval: pause_start and pause_duration are options
CalculateRequeueInterval(pause_start, pause_duration, t) ==
    IF pause_start.some /\ pause_duration.some THEN
        LET elapsed_secs == Max(t - pause_start.v, 0)
            remaining_secs == Max(pause_duration.v - elapsed_secs, 0)
        IN Min(Max(remaining_secs, MIN_REQUEUE), MAX_REQUEUE)
    ELSE DEFAULT_REQUEUE

\* calculate_requeue_interval_from_rollout
CalculateRequeueIntervalFromRollout(r, st, t) ==
    LET pause_start == ParseRfc3339(st.pauseStartTime)
        pause_duration ==
            IF st.currentStepIndex.some /\ HasCanary(r)
               /\ st.currentStepIndex.v >= 0 /\ st.currentStepIndex.v < Len(r.spec.steps)
               /\ r.spec.steps[st.currentStepIndex.v + 1].pause
            THEN ParseDuration(r.spec.steps[st.currentStepIndex.v + 1].duration)
            ELSE None
    IN CalculateRequeueInterval(pause_start, pause_duration, t)

---------------------------------------------------------------------------
(* rollout/traffic.rs *)

\* calculate_traffic_weights: <<stable_weight, canary_weight>>
CalculateTrafficWeights(r) ==
    IF ~HasCanary(r) THEN <<100, 0>>
    ELSE
        LET current_step_index ==
                IF r.status.some THEN UnwrapOr(r.status.currentStepIndex, 0 - 1)
                ELSE 0 - 1
        IN IF current_step_index < 0 THEN <<100, 0>>
           ELSE IF current_step_index >= Len(r.spec.steps) THEN <<0, 100>>
           ELSE LET canary_weight ==
                        UnwrapOr(r.spec.steps[current_step_index + 1].setWeight, 0)
                IN <<100 - canary_weight, canary_weight>>

\* calculate_blue_green_weights: <<active_weight, preview_weight>>
CalculateBlueGreenWeights(r) ==
    LET phase == IF r.status.some /\ r.status.phase # "None"
                 THEN r.status.phase ELSE "Initializing"
    IN IF phase = "Completed" THEN <<0, 100>> ELSE <<100, 0>>

\* build_gateway_api_backend_refs: the weights of the two backends, in order
\* (the empty list when neither blue-green nor canary is set)
BuildGatewayApiBackendRefs(r) ==
    IF HasBlueGreen(r) THEN CalculateBlueGreenWeights(r)
    ELSE IF ~HasCanary(r) THEN <<>>
    ELSE CalculateTrafficWeights(r)

---------------------------------------------------------------------------
(* rollout/replicaset.rs: the planner *)

\* (total * percent / 100).ceil() for non-negative operands
CeilPercent(total, percent) == (total * percent + 99) \div 100

\* calculate_replica_split
CalculateReplicaSplit(total_replicas, canary_weight) ==
    LET canary_replicas ==
            IF canary_weight = 0 THEN 0
            ELSE IF canary_weight = 100 THEN total_replicas
            ELSE CeilPercent(total_replicas, canary_weight)
    IN <<total_replicas - canary_replicas, canary_replicas>>

\* parse_surge_value
ParseSurgeValue(v, total_replicas) ==
    IF v.pct THEN (IF v.n >= 0 /\ v.n <= 100 THEN CeilPercent(total_replicas, v.n) ELSE 0)
    ELSE (IF v.n >= 0 THEN v.n ELSE 0)

\* i32: the range, and + and - as a release build computes them (wrapping)
I32Max == 2147483647
I32Min == 0 - I32Max - 1
AddI32(a, b) ==
    IF b >= 0
    THEN (IF a <= I32Max - b THEN a + b ELSE (a - I32Max - 1) + (b - I32Max - 1))
    ELSE (IF a >= I32Min - b THEN a + b ELSE (a + I32Max + 1) + (b + I32Max + 1))
SubI32(a, b) ==
    IF b = I32Min THEN AddI32(AddI32(a, I32Max), 1) ELSE AddI32(a, 0 - b)

\* the i32 sum or difference does not fit: a build with overflow checks
\* (debug) panics there
AddOverflows(a, b) == IF b >= 0 THEN a > I32Max - b ELSE a < I32Min - b
SubOverflows(a, b) == IF b = I32Min THEN a >= 0 ELSE AddOverflows(a, 0 - b)

\* the default "25%" of max_surge and "0" of max_unavailable
SurgeOrDefault(max_surge) == IF max_surge.some THEN max_surge ELSE Surge(25, TRUE)
UnavailableOrDefault(max_unavailable) ==
    IF max_unavailable.some THEN max_unavailable ELSE Surge(0, FALSE)

\* calculate_replica_split_with_surge
CalculateReplicaSplitWithSurge(total_replicas, canary_weight, max_surge, max_unavailable) ==
    LET surge == ParseSurgeValue(SurgeOrDefault(max_surge), total_replicas)
        unavailable == ParseSurgeValue(UnavailableOrDefault(max_unavailable), total_replicas)
        ideal_canary ==
            IF canary_weight = 0 THEN 0
            ELSE IF canary_weight = 100 THEN total_replicas
            ELSE CeilPercent(total_replicas, canary_weight)
        max_total == AddI32(total_replicas, surge)
        min_total == Max(SubI32(total_replicas, unavailable), 0)
        canary0 == ideal_canary
        stable0 == Max(SubI32(total_replicas, ideal_canary), 0)
        total0 == AddI32(stable0, canary0)
        excess0 == SubI32(total0, max_total)
        canary_reduction == IF total0 > max_total THEN Min(canary0, excess0) ELSE 0
        canary1 == SubI32(canary0, canary_reduction)
        excess1 == SubI32(excess0, canary_reduction)
        stable1 == IF total0 > max_total /\ excess1 > 0
                   THEN Max(SubI32(stable0, excess1), 0) ELSE stable0
        total1 == AddI32(stable1, canary1)
        stable2 == IF total1 < min_total THEN AddI32(stable1, SubI32(min_total, total1))
                   ELSE stable1
    IN <<stable2, canary1>>

\* calculate_replica_split_with_surge in a build with overflow checks: the
\* first sum that can leave i32 is max_total, and when it fits no later one
\* leaves it
ReplicaSplitPanics(total_replicas, max_surge) ==
    AddOverflows(total_replicas, ParseSurgeValue(SurgeOrDefault(max_surge), total_replicas))

\* a call of the planner: its arguments and the build, then what it gave
PlannerCall(total_replicas, canary_weight, max_surge, max_unavailable, overflow_checks) ==
    [total_replicas |-> total_replicas, canary_weight |-> canary_weight,
     max_surge |-> max_surge, max_unavailable |-> max_unavailable,
     overflow_checks |-> overflow_checks,
     called |-> FALSE, panicked |-> FALSE, stable |-> 0, canary |-> 0]
NoPlan == PlannerCall(0, 0, NoSurge, NoSurge, FALSE)

---------------------------------------------------------------------------
(* The object store and the collaborators, as one reconcile sees them *)

RsRoles == {"stable", "canary", "active", "preview", "simple"}
Absent == 0 - 1
NoReplicaSets == [role \in RsRoles |-> Absent]

\* the HTTPRoute: the weights of the two backendRefs of its first rule,
\* whether that rule has other fields (matches, filters), and the number of
\* rules in spec.rules.  The user's route has a first rule with matches and a
\* second rule.
NoRoute == [exists |-> FALSE, first |-> 0, second |-> 0, matches |-> FALSE, rules |-> 0]
UserRoute == [exists |-> TRUE, first |-> 100, second |-> 0, matches |-> TRUE, rules |-> 2]

\* JSON Merge Patch {"spec": {"rules": [{"backendRefs": refs}]}} applied to
\* the route: objects are merged key by key, an array is replaced whole, so
\* spec.rules becomes the one rule of the patch, which has backendRefs only
MergePatchRules(stored, first, second) ==
    [stored EXCEPT !.first = first, !.second = second, !.matches = FALSE, !.rules = 1]

\* what the collaborators answer during one reconcile
MetricAnswers == {"healthy", "unhealthy", "error"}
AdvisorAnswers == {"Continue", "Rollback", "Pause", "error", "timeout"}
ApiAnswers == {"ok", "error"}

\* a request sent to the object store
Write(kind, target, st, a, b) == [kind |-> kind, target |-> target, st |-> st, a |-> a, b |-> b]

\* an occurrence written to the occurrence stream
Occurrence(type, old, new, error) ==
    [type |-> type, old |-> old, new |-> new, error |-> error]

NoRequeue == 0 - 1

\* the effects of a reconcile so far: the store as it leaves it, the requests,
\* events and occurrences it sent, the queries it made, and its return value
\* (result "pending" while it is still running)
Begin(obs) ==
    [replicasets |-> obs.replicasets,
     route |-> obs.route,
     status |-> obs.status,
     annotations |-> obs.annotations,
     advisorCache |-> obs.advisorCache,
     writes |-> <<>>,
     events |-> <<>>,
     occurrences |-> <<>>,
     queries |-> <<>>,
     metrics |-> "none",
     advised |-> "none",
     asked |-> {},
     skipped |-> FALSE,
     strategy |-> "none",
     errorMetric |-> FALSE,
     result |-> "pending",
     requeue |-> NoRequeue]

\* the merge patch {"status": st} applied to the stored status: the fields
\* the serializer skips (an Option that is None) keep what is stored
\* (crd/rollout.rs, the skip_serializing_if attributes of RolloutStatus)
MergeOpt(stored, patched) == IF patched.some THEN patched ELSE stored
MergePatchStatus(stored, st) ==
    IF ~stored.some THEN st
    ELSE [some |-> TRUE,
          replicas |-> st.replicas,
          currentStepIndex |-> MergeOpt(stored.currentStepIndex, st.currentStepIndex),
          currentWeight |-> MergeOpt(stored.currentWeight, st.currentWeight),
          phase |-> IF st.phase # "None" THEN st.phase ELSE stored.phase,
          message |-> IF st.message # NoMsg THEN st.message ELSE stored.message,
          pauseStartTime |-> MergeOpt(stored.pauseStartTime, st.pauseStartTime),
          stepStartTime |-> MergeOpt(stored.stepStartTime, st.stepStartTime),
          progressStartedAt |-> MergeOpt(stored.progressStartedAt, st.progressStartedAt),
          abStartedAt |-> MergeOpt(stored.abStartedAt, st.abStartedAt),
          abConclusionReason |-> IF st.abConclusionReason # "None"
                                 THEN st.abConclusionReason ELSE stored.abConclusionReason]

\* the ? operator: a step runs only while no earlier step has returned
AndThen(e, Stage(_)) == With(e, LAMBDA o : IF o.result # "pending" THEN o ELSE Stage(o))

\* rollout_api.patch_status(...): the request is sent; the store applies it
\* unless it answers with an error
PatchStatus(o, env, st) ==
    [o EXCEPT !.writes = Append(@, Write("status", "rollout", st, 0, 0)),
              !.asked = @ \cup {"statusPatch"},
              !.status = IF env.statusPatch = "ok" THEN MergePatchStatus(@, st) ELSE @]

---------------------------------------------------------------------------
(* rollout/replicaset.rs: ensure_replicaset_exists *)

\* an ensure step that scales an existing replica set without comparing its
\* size with the desired one
EnsureReplicaSetExists_AlwaysScales(o, env, rs_type, replicas) ==
    LET got == [o EXCEPT !.asked = @ \cup {"rsGet"}]
        written(kind) ==
            [got EXCEPT !.writes = Append(@, Write(kind, rs_type, NoStatus, replicas, 0)),
                        !.asked = @ \cup {"rsWrite"},
                        !.replicasets[rs_type] = IF env.rsWrite = "ok" THEN replicas ELSE @,
                        !.result = IF env.rsWrite = "ok" THEN @
                                   ELSE "ReplicaSetReconciliationFailed"]
    IN IF env.rsGet = "error" THEN [got EXCEPT !.result = "ReplicaSetReconciliationFailed"]
       ELSE IF o.replicasets[rs_type] = Absent THEN written("rs_create")
       ELSE written("rs_scale")

\* get, then create on 404, or scale when the replica count differs
EnsureReplicaSetExists(o, env, rs_type, replicas) ==
    LET got == [o EXCEPT !.asked = @ \cup {"rsGet"}]
        written(kind) ==
            [got EXCEPT !.writes = Append(@, Write(kind, rs_type, NoStatus, replicas, 0)),
                        !.asked = @ \cup {"rsWrite"},
                        !.replicasets[rs_type] = IF env.rsWrite = "ok" THEN replicas ELSE @,
                        !.result = IF env.rsWrite = "ok" THEN @
                                   ELSE "ReplicaSetReconciliationFailed"]
    IN IF env.rsGet = "error" THEN [got EXCEPT !.result = "ReplicaSetReconciliationFailed"]
       ELSE IF o.replicasets[rs_type] = Absent THEN written("rs_create")
       ELSE IF o.replicasets[rs_type] # replicas THEN written("rs_scale")
       ELSE got

---------------------------------------------------------------------------
(* strategies/mod.rs *)

\* a route patch for which a 404 answer is an error like any other
PatchHttprouteWeights_NotFoundFails(o, env, backend_refs) ==
    LET w == IF Len(backend_refs) = 2 THEN backend_refs ELSE <<0, 0>>
        sent == [o EXCEPT !.writes = Append(@, Write("route", "httproute", NoStatus, w[1], w[2])),
                          !.asked = @ \cup {"routePatch"}]
    IN IF env.routePatch = "error" \/ ~o.route.exists
       THEN [sent EXCEPT !.result = "TrafficReconciliationFailed"]
       ELSE [sent EXCEPT !.route = MergePatchRules(o.route, w[1], w[2])]

\* patch_httproute_weights: the merge patch of rules[0].backendRefs is sent
\* without a prior read; 404 is not an error
PatchHttprouteWeights(o, env, backend_refs) ==
    LET w == IF Len(backend_refs) = 2 THEN backend_refs ELSE <<0, 0>>
        sent == [o EXCEPT !.writes = Append(@, Write("route", "httproute", NoStatus, w[1], w[2])),
                          !.asked = @ \cup {"routePatch"}]
    IN IF env.routePatch = "error"
       THEN [sent EXCEPT !.result = "TrafficReconciliationFailed"]
       ELSE IF ~o.route.exists THEN sent
       ELSE [sent EXCEPT !.route = MergePatchRules(o.route, w[1], w[2])]

\* select_strategy: the handler's name
SelectStrategy(r) ==
    IF HasSimple(r) THEN "simple"
    ELSE IF HasBlueGreen(r) THEN "blue-green"
    ELSE "canary"

\* supports_metrics_analysis of the handler
SupportsMetricsAnalysis(strategy) == strategy # "simple"


---------------------------------------------------------------------------
(* strategies/simple.rs *)

SimpleReconcileReplicaSets(r, o, env) ==
    EnsureReplicaSetExists(o, env, "simple", r.spec.replicas)

SimpleComputeNextStatus(r) ==
    [DefaultStatus EXCEPT !.phase = "Completed",
        !.message = Msg("Simple rollout completed: N replicas updated", r.spec.replicas, 0),
        !.replicas = r.spec.replicas]

---------------------------------------------------------------------------
(* strategies/blue_green.rs *)

\* should_auto_promote: reads the wall clock, not the injected Clock
ShouldAutoPromote(r, st, wallNow) ==
    IF ~HasBlueGreen(r) THEN FALSE
    ELSE IF ~UnwrapOr(r.spec.autoPromotionEnabled, FALSE) THEN FALSE
    ELSE IF ~r.spec.autoPromotionSeconds.some THEN FALSE
    ELSE IF ~st.pauseStartTime.some THEN FALSE
    ELSE IF ~ParseRfc3339(st.pauseStartTime).some THEN FALSE
    ELSE wallNow - ParseRfc3339(st.pauseStartTime).v >= r.spec.autoPromotionSeconds.v

\* both replica sets at full size, active first
BlueGreenReconcileReplicaSets(r, o, env) ==
    AndThen(EnsureReplicaSetExists(o, env, "active", r.spec.replicas),
            LAMBDA o1 : EnsureReplicaSetExists(o1, env, "preview", r.spec.replicas))

\* the route is patched from the rollout as observed, when one is configured
BlueGreenReconcileTraffic(r, o, env) ==
    IF ~HasBlueGreen(r) THEN o
    ELSE IF ~r.spec.bgTrafficRouting THEN o
    ELSE PatchHttprouteWeights(o, env, BuildGatewayApiBackendRefs(r))

BlueGreenComputeNextStatus(r, t, wallNow) ==
    IF ~r.status.some THEN InitializeRolloutStatus(r, t)
    ELSE
        LET current_status == r.status
            current_phase == IF current_status.phase # "None"
                             THEN current_status.phase ELSE "Preview"
        IN IF current_phase = "Preview" THEN
               IF HasPromoteAnnotation(r) THEN
                   [current_status EXCEPT !.phase = "Completed",
                       !.message = Msg("Blue-green rollout completed: promoted to production", 0, 0)]
               ELSE IF ShouldAutoPromote(r, current_status, wallNow) THEN
                   [current_status EXCEPT !.phase = "Completed",
                       !.message = Msg("Blue-green rollout completed: auto-promoted after duration", 0, 0)]
               ELSE current_status
           ELSE IF current_phase = "Completed" THEN current_status
           ELSE IF current_phase = "Failed" THEN current_status
           ELSE InitializeRolloutStatus(r, t)

---------------------------------------------------------------------------
(* strategies/ab_testing.rs: the A/B handler *)

\* has_promote_annotation of ab_testing.rs: the annotation is present
AbHasPromoteAnnotation(r) == r.annotations.promote # "absent"

\* ABTestingStrategyHandler::compute_next_status: the instant it is given is
\* not read; a new experiment is stamped from the wall clock
AbComputeNextStatus(r, t, wallNow) ==
    LET current_phase == IF r.status.some THEN r.status.phase ELSE "None" IN
    IF current_phase = "Completed" THEN
        [r.status EXCEPT !.phase = "Completed", !.message = Msg("A/B experiment completed", 0, 0)]
    ELSE IF current_phase = "Concluded" THEN
        IF AbHasPromoteAnnotation(r) THEN
            [r.status EXCEPT !.phase = "Completed",
                !.message = Msg("A/B experiment promoted", 0, 0)]
        ELSE [r.status EXCEPT !.phase = "Concluded",
                !.message = Msg("A/B experiment concluded, awaiting promotion", 0, 0)]
    ELSE IF current_phase = "Experimenting" THEN
        IF r.status.abConclusionReason # "None" THEN
            [r.status EXCEPT !.phase = "Concluded",
                !.message = Msg("A/B experiment concluded, awaiting promotion", 0, 0)]
        ELSE [r.status EXCEPT !.phase = "Experimenting",
                !.message = Msg("A/B experiment in progress", 0, 0)]
    ELSE [DefaultStatus EXCEPT !.phase = "Experimenting",
             !.message = Msg("A/B experiment started", 0, 0),
             !.abStartedAt = ToRfc3339(wallNow)]

NoHandling == [called |-> FALSE, made |-> FALSE, promote |-> "absent", observed |-> NoStatus,
               now |-> 0, wall |-> 0, next |-> NoStatus]

---------------------------------------------------------------------------
(* strategies/canary.rs: the handler the orchestrator dispatches to.  Its   *)
(* three operations follow the design document (replica sets from the      *)
(* replica planner fed with the traffic planner's canary weight, the route *)
(* patched with the traffic planner's output, the status from the canary   *)
(* status computer).                                                       *)

CanaryReconcileReplicaSets(r, o, env) ==
    LET split == CalculateReplicaSplitWithSurge(r.spec.replicas,
                     CalculateTrafficWeights(r)[2], r.spec.maxSurge, r.spec.maxUnavailable)
    IN AndThen(EnsureReplicaSetExists(o, env, "stable", split[1]),
               LAMBDA o1 : EnsureReplicaSetExists(o1, env, "canary", split[2]))

CanaryReconcileTraffic(r, o, env) ==
    IF ~HasCanary(r) THEN o
    ELSE IF ~r.spec.canaryTrafficRouting THEN o
    ELSE PatchHttprouteWeights(o, env, BuildGatewayApiBackendRefs(r))

CanaryComputeNextStatus(r, t) == ComputeDesiredStatus(r, t)

---------------------------------------------------------------------------
(* the RolloutStrategy trait, dispatched on the selected handler *)

ReconcileReplicaSets(strategy, r, o, env) ==
    IF strategy = "simple" THEN SimpleReconcileReplicaSets(r, o, env)
    ELSE IF strategy = "blue-green" THEN BlueGreenReconcileReplicaSets(r, o, env)
    ELSE CanaryReconcileReplicaSets(r, o, env)

ReconcileTraffic(strategy, r, o, env) ==
    IF strategy = "simple" THEN o
    ELSE IF strategy = "blue-green" THEN BlueGreenReconcileTraffic(r, o, env)
    ELSE CanaryReconcileTraffic(r, o, env)

ComputeNextStatus(strategy, r, t, wallNow) ==
    IF strategy = "simple" THEN SimpleComputeNextStatus(r)
    ELSE IF strategy = "blue-green" THEN BlueGreenComputeNextStatus(r, t, wallNow)
    ELSE CanaryComputeNextStatus(r, t)


---------------------------------------------------------------------------
(* cdevents.rs *)

\* an emitter for which a first status of phase Experimenting is no
\* initialization
StatusChangeEvents_ExperimentingNotDeployed(old_status, new_status) ==
    LET is_initialization ==
            ~old_status.some
            /\ new_status.phase \in {"Progressing", "Completed", "Preview"}
        is_experiment_concluded ==
            old_status.some /\ new_status.phase = "Concluded"
            /\ old_status.phase = "Experimenting"
        is_step_progression ==
            old_status.some /\ new_status.phase = "Progressing"
            /\ old_status.phase = "Progressing"
            /\ old_status.currentStepIndex # new_status.currentStepIndex
        is_rollback == new_status.phase = "Failed"
        is_completion == new_status.phase = "Completed"
    IN IF is_initialization THEN
           (IF is_completion THEN <<"service.deployed", "service.published">>
            ELSE <<"service.deployed">>)
       ELSE IF is_step_progression THEN <<"service.upgraded">>
       ELSE IF is_rollback THEN <<"service.rolledback">>
       ELSE IF is_experiment_concluded THEN <<"experiment.concluded">>
       ELSE IF is_completion THEN <<"service.published">>
       ELSE <<>>

\* emit_status_change_event: the events the transition calls for, in order
StatusChangeEvents(old_status, new_status) ==
    LET is_initialization ==
            ~old_status.some
            /\ new_status.phase \in {"Progressing", "Completed", "Preview", "Experimenting"}
        is_experiment_concluded ==
            old_status.some /\ new_status.phase = "Concluded"
            /\ old_status.phase = "Experimenting"
        is_step_progression ==
            old_status.some /\ new_status.phase = "Progressing"
            /\ old_status.phase = "Progressing"
            /\ old_status.currentStepIndex # new_status.currentStepIndex
        is_rollback == new_status.phase = "Failed"
        is_completion == new_status.phase = "Completed"
    IN IF is_initialization THEN
           (IF is_completion THEN <<"service.deployed", "service.published">>
            ELSE <<"service.deployed">>)
       ELSE IF is_step_progression THEN <<"service.upgraded">>
       ELSE IF is_rollback THEN <<"service.rolledback">>
       ELSE IF is_experiment_concluded THEN <<"experiment.concluded">>
       ELSE IF is_completion THEN <<"service.published">>
       ELSE <<>>

\* an emission whose failed send makes the reconcile return an error
EmitStatusChangeEvent_SendFailureIsFatal(o, env, old_status, new_status) ==
    LET evs == StatusChangeEvents(old_status, new_status)
    IN [o EXCEPT !.events =
            @ \o (IF env.sink = "ok" \/ evs = <<>> THEN evs ELSE <<Head(evs)>>),
                 !.asked = IF evs = <<>> THEN @ ELSE @ \cup {"sink"},
                 !.result = IF env.sink = "ok" \/ evs = <<>> THEN @ ELSE "CDEventsError"]

\* the sends reach the sink in order; the first failed send ends the emission
EmitStatusChangeEvent(o, env, old_status, new_status) ==
    LET evs == StatusChangeEvents(old_status, new_status)
    IN [o EXCEPT !.events =
            @ \o (IF env.sink = "ok" \/ evs = <<>> THEN evs ELSE <<Head(evs)>>),
                 !.asked = IF evs = <<>> THEN @ ELSE @ \cup {"sink"}]

\* what the builders give: build_experiment_concluded_event builds a
\* service.published event and attaches build_experiment_custom_data, the
\* A/B data block; the other builders attach the strategy's custom data
EventType(event) == IF event = "experiment.concluded" THEN "service.published" ELSE event
CarriesAbBlock(event) == event = "experiment.concluded"

\* a call of emit_status_change_event
Emission(old_status, new_status, sink) ==
    [old_status |-> old_status, new_status |-> new_status, sink |-> sink,
     made |-> FALSE, events |-> <<>>]
NoEmission == Emission(NoStatus, NoStatus, "ok")

---------------------------------------------------------------------------
(* occurrence.rs *)

PhaseToOccurrenceSuffix(new_phase) ==
    IF new_phase = "Failed" THEN "failed"
    ELSE IF new_phase \in {"Completed", "Concluded"} THEN "completed"
    ELSE IF new_phase = "Paused" THEN "paused"
    ELSE "progressing"

StrategyPrefix(strategy) ==
    IF strategy = "blue_green" THEN "bluegreen"
    ELSE IF strategy = "ab_testing" THEN "abtesting"
    ELSE IF strategy = "simple" THEN "rolling"
    ELSE strategy

\* build_occurrence_type: <<prefix, "rollout", suffix>>
BuildOccurrenceType(strategy, new_phase) ==
    <<StrategyPrefix(strategy), "rollout", PhaseToOccurrenceSuffix(new_phase)>>

\* message.contains(needle), for the messages the controller writes and the
\* needles build_occurrence looks for
Contains(message, needle) ==
    IF needle = "deadline exceeded"
    THEN message.text = "Progress deadline exceeded: no progress made in D seconds"
    ELSE IF needle = "metrics exceeded"
    THEN message.text = "Rollback triggered: metrics exceeded thresholds"
    ELSE FALSE

\* build_occurrence, the error block: present for a transition to Failed and
\* built from the message of rollout.status, the status of the rollout the
\* caller passes ("Rollout failed" when there is none)
NoOccurrenceError == [some |-> FALSE, message |-> NoMsg, possible_causes |-> {}]
BuildOccurrenceError(r, new_phase) ==
    IF new_phase # "Failed" THEN NoOccurrenceError
    ELSE LET message == IF r.status.some /\ r.status.message # NoMsg THEN r.status.message
                        ELSE Msg("Rollout failed", 0, 0)
         IN [some |-> TRUE, message |-> message,
             possible_causes |->
                 {message.text}
                 \cup (IF Contains(message, "metrics exceeded") \/ Contains(message, "error rate")
                       THEN {"New code path in NAME handlers", "Downstream service degradation"}
                       ELSE {})
                 \cup (IF Contains(message, "deadline exceeded")
                       THEN {"Pods failing readiness probes",
                             "Image pull failures or resource constraints"}
                       ELSE {})]

\* emit_occurrence(&rollout, old_phase, new_phase, strategy, clock): rollout
\* is the object the reconcile was given.  The occurrence reaches the stream
\* unless write_occurrence fails, which is logged and nothing more
EmitOccurrence(o, env, r, old_phase, new_phase, strategy) ==
    [o EXCEPT !.asked = @ \cup {"occurrenceWrite"},
              !.occurrences =
        IF env.occurrenceWrite # "ok" THEN @
        ELSE Append(@, Occurrence(BuildOccurrenceType(strategy, new_phase), old_phase,
                                  new_phase, BuildOccurrenceError(r, new_phase)))]

EmitAdvisorOccurrence(o, strategy, action) ==
    [o EXCEPT !.occurrences =
        Append(@, Occurrence(<<StrategyPrefix(strategy), "advisor", "recommendation">>,
                             action, action, NoOccurrenceError))]

---------------------------------------------------------------------------
(* advisor.rs *)

\* resolve_advisor with the production context advisor (a NoOpAdvisor):
\* "noop", or "http" together with the cache after the lookup or insert
ResolveAdvisor(s, cache) ==
    IF s.advisorLevel \in {"Off", "Context"} THEN [advisor |-> "noop", cache |-> cache]
    ELSE IF s.advisorEndpoint THEN [advisor |-> "http", cache |-> cache \cup {"endpoint"}]
    ELSE [advisor |-> "noop", cache |-> cache]

\* resolve_advisor step by step, for the calls that reach the cache (the
\* context advisor is the NoOpAdvisor, the level asks for an advisor and the
\* endpoint is set).  The mutex is taken twice: for the lookup and, after the
\* HttpAdvisor was constructed with the mutex free, for the insert.
\* Instances of a key are numbered in order of construction; 0 is no entry.
AdvisorKeys == {"endpoint-a/10", "endpoint-b/10"}
Reconcilers == {"r1", "r2"}
MaxAdvisors == 3
NoResolving ==
    [cache |-> [k \in AdvisorKeys |-> 0],
     constructed |-> [k \in AdvisorKeys |-> 0],
     returned |-> [k \in AdvisorKeys |-> {}],
     pc |-> [t \in Reconcilers |-> "idle"],
     key |-> [t \in Reconcilers |-> "endpoint-a/10"],
     advisor |-> [t \in Reconcilers |-> 0]]

\* advisor_cache.cache.lock(), cache.get(&key): a hit returns the entry
ResolveLookup(rs, t, k) ==
    IF rs.cache[k] # 0
    THEN [rs EXCEPT !.key[t] = k, !.returned[k] = @ \cup {rs.cache[k]}]
    ELSE [rs EXCEPT !.key[t] = k, !.pc[t] = "missed"]

\* Arc::new(HttpAdvisor::new(endpoint.clone(), timeout))
ResolveConstruct(rs, t) ==
    [rs EXCEPT !.constructed[rs.key[t]] = @ + 1,
               !.advisor[t] = rs.constructed[rs.key[t]] + 1,
               !.pc[t] = "constructed"]

\* advisor_cache.cache.lock(), cache.insert(key, advisor.clone()); advisor
ResolveInsert(rs, t) ==
    [rs EXCEPT !.cache[rs.key[t]] = rs.advisor[t],
               !.returned[rs.key[t]] = @ \cup {rs.advisor[t]},
               !.advisor[t] = 0,
               !.pc[t] = "idle"]

---------------------------------------------------------------------------
(* crd/conversion.rs and server/webhook.rs: conversion between the versions *)

\* the versions of the Rollout CRD
Versions == {"v1alpha1", "v1beta1"}

\* the fields v1beta1 added to the spec
NewFields == {"maxSurge", "maxUnavailable", "progressDeadlineSeconds"}

\* the conversions one object goes through
MaxConversions == 2

DEFAULT_MAX_SURGE == "25%"
DEFAULT_MAX_UNAVAILABLE == "0"
DEFAULT_PROGRESS_DEADLINE_SECONDS == 600

\* a JSON object (or a struct of Options) is a function from the fields that
\* are set to their values
NoFields == [f \in {} |-> f]

Field(name, isSet, value) == IF isSet THEN name :> value ELSE NoFields

\* serde_json's spec[name] = value when the field is absent
WithDefault(obj, name, value) == IF name \in DOMAIN obj THEN obj ELSE obj @@ (name :> value)

\* serde_json's Map::remove
Remove(obj, names) == [f \in DOMAIN obj \ names |-> obj[f]]

ApiVersion(version) == "kulta.io/" \o version

\* extract_version: the part of apiVersion after the last '/'
ExtractVersion(api_version) ==
    IF api_version = "kulta.io/v1alpha1" THEN "v1alpha1"
    ELSE IF api_version = "kulta.io/v1beta1" THEN "v1beta1"
    ELSE api_version

\* convert_object: the conversion webhook, on the object's JSON
ConvertObject(obj, desired_version) ==
    IF ExtractVersion(obj.apiVersion) = desired_version THEN obj
    ELSE IF desired_version = "v1beta1"
         THEN [obj EXCEPT !.apiVersion = ApiVersion(desired_version),
                          !.spec = WithDefault(WithDefault(WithDefault(@,
                                       "maxSurge", DEFAULT_MAX_SURGE),
                                       "maxUnavailable", DEFAULT_MAX_UNAVAILABLE),
                                       "progressDeadlineSeconds", DEFAULT_PROGRESS_DEADLINE_SECONDS)]
         ELSE [obj EXCEPT !.apiVersion = ApiVersion(desired_version),
                          !.spec = Remove(@, NewFields)]

\* convert_to_v1beta1: the typed conversion, on v1alpha1::RolloutSpec
ConvertToV1beta1(obj) ==
    [obj EXCEPT !.apiVersion = ApiVersion("v1beta1"),
                !.spec = WithDefault(WithDefault(WithDefault(@,
                             "maxSurge", DEFAULT_MAX_SURGE),
                             "maxUnavailable", DEFAULT_MAX_UNAVAILABLE),
                             "progressDeadlineSeconds", DEFAULT_PROGRESS_DEADLINE_SECONDS)]

\* convert_to_v1alpha1: the typed conversion, on v1beta1::RolloutSpec
ConvertToV1alpha1(obj) == [obj EXCEPT !.apiVersion = ApiVersion("v1alpha1")]

\* the converters: the webhook the API server calls, and the typed functions
Converters == {"webhook", "crd"}

Convert(via, obj, desired_version) ==
    IF via = "webhook" THEN ConvertObject(obj, desired_version)
    ELSE IF ExtractVersion(obj.apiVersion) = desired_version THEN obj
    ELSE IF desired_version = "v1beta1" THEN ConvertToV1beta1(obj)
    ELSE ConvertToV1alpha1(obj)

NoConversion == [via |-> "none", original |-> [apiVersion |-> "", spec |-> NoFields],
                 object |-> [apiVersion |-> "", spec |-> NoFields], trail |-> <<>>]

---------------------------------------------------------------------------
(* rollout/reconcile.rs *)

\* a leader gate that lets every instance through
ShouldReconcile_Always(obs) == TRUE

\* Context::should_reconcile
ShouldReconcile(obs) == IF ~obs.leaderElection THEN TRUE ELSE obs.isLeader

\* evaluate_rollout_metrics: "healthy", "unhealthy" or "error", and whether
\* the metrics backend was asked.  The rollout was created at instant 0.
EvaluateRolloutMetrics(r, env, t) ==
    LET ask == [answer |-> env.metrics, asked |-> TRUE]
        skip == [answer |-> "healthy", asked |-> FALSE]
    IN IF ~HasCanary(r) THEN skip
       ELSE IF ~r.spec.analysis THEN skip
       ELSE IF r.spec.warmupDuration.some /\ ParseDuration(r.spec.warmupDuration).some THEN
           LET from_status == IF r.status.some THEN ParseRfc3339(r.status.stepStartTime)
                              ELSE None
               step_start_time == IF from_status.some THEN from_status.v ELSE 0
           IN IF t - step_start_time < ParseDuration(r.spec.warmupDuration).v
              THEN skip ELSE ask
       ELSE ask


\* a rollback decision that lets the advisor's Continue veto the rollback
TriggersRollback_UnlessAdvisedContinue(is_healthy, advice) ==
    ~is_healthy /\ advice # "Continue"

\* a rollback decision that obeys an advised Rollback
TriggersRollback_OrAdvisedRollback(is_healthy, advice) ==
    ~is_healthy \/ advice = "Rollback"

\* reconcile, line 300: the threshold result alone decides the rollback; the
\* advisor's answer (advice) is not looked at
TriggersRollback(is_healthy, advice) == ~is_healthy

\* reconcile, lines 238-349: metric analysis of a Progressing rollout, the
\* advisor's consultation, and the rollback on unhealthy metrics
AnalyseMetrics(strategy, r, obs, o, env) ==
    IF ~(SupportsMetricsAnalysis(strategy) /\ r.status.some /\ r.status.phase = "Progressing")
    THEN o
    ELSE
        LET m == EvaluateRolloutMetrics(r, env, obs.now)
            oq == IF m.asked
                  THEN [o EXCEPT !.queries = Append(@, "canary"), !.metrics = env.metrics]
                  ELSE o
        IN
        IF m.answer = "error" THEN [oq EXCEPT !.result = "MetricsEvaluationFailed"]
        ELSE
            LET is_healthy == m.answer = "healthy"
                consult == r.spec.advisorLevel \in {"Advised", "Planned", "Driven"}
                           /\ r.spec.advisorEndpoint
                resolved == ResolveAdvisor(r.spec, oq.advisorCache)
                answer == IF resolved.advisor = "http" THEN env.advisor ELSE "Continue"
                oc == [oq EXCEPT !.advisorCache = resolved.cache, !.advised = answer]
                oa == IF ~consult THEN oq
                      ELSE IF answer \in {"error", "timeout"} THEN oc
                      ELSE EmitAdvisorOccurrence(oc, strategy, answer)
            IN
            IF ~TriggersRollback(is_healthy, IF consult THEN answer ELSE "none") THEN oa
            ELSE
                LET failed_status ==
                        [r.status EXCEPT !.phase = "Failed",
                            !.message = Msg("Rollback triggered: metrics exceeded thresholds", 0, 0)]
                    oe == EmitStatusChangeEvent(oa, env, r.status, failed_status)
                    oo == EmitOccurrence(oe, env, r, "Progressing", "Failed", strategy)
                    op == PatchStatus(oo, env, failed_status)
                IN IF env.statusPatch # "ok" THEN [op EXCEPT !.result = "KubeError"]
                   ELSE [op EXCEPT !.result = "ok", !.requeue = 30]

\* reconcile, lines 351-424: the A/B evaluator's verdict on an Experimenting
\* rollout
EvaluateAb(strategy, r, obs, o, env) ==
    IF ~(HasAbTesting(r) /\ r.status.some /\ r.status.phase = "Experimenting") THEN o
    ELSE IF env.ab = "continue" THEN o
    ELSE
        LET concluded_status ==
                [r.status EXCEPT !.phase = "Concluded",
                    !.message = Msg("A/B experiment concluded", 0, 0),
                    !.abStartedAt = IF r.status.abStartedAt.some THEN r.status.abStartedAt
                                    ELSE ToRfc3339(obs.now),
                    !.abConclusionReason = env.ab]
            oe == EmitStatusChangeEvent(o, env, r.status, concluded_status)
            oo == EmitOccurrence(oe, env, r, "Experimenting", "Concluded", strategy)
            op == PatchStatus(oo, env, concluded_status)
        IN IF env.statusPatch # "ok" THEN [op EXCEPT !.result = "KubeError"]
           ELSE [op EXCEPT !.result = "ok", !.requeue = 30]

\* reconcile, lines 426-496: the progress deadline
CheckProgressDeadline(strategy, r, obs, o, env) ==
    IF ~(r.spec.progressDeadlineSeconds.some /\ r.status.some
         /\ r.status.phase \in {"Progressing", "Preview"}
         /\ IsProgressDeadlineExceeded(r.status, r.spec.progressDeadlineSeconds.v, obs.now))
    THEN o
    ELSE
        LET failed_status ==
                [r.status EXCEPT !.phase = "Failed",
                    !.message = Msg("Progress deadline exceeded: no progress made in D seconds",
                                    r.spec.progressDeadlineSeconds.v, 0)]
            oe == EmitStatusChangeEvent(o, env, r.status, failed_status)
            oo == EmitOccurrence(oe, env, r, r.status.phase, "Failed", strategy)
            op == PatchStatus(oo, env, failed_status)
        IN IF env.statusPatch # "ok" THEN [op EXCEPT !.result = "KubeError"]
           ELSE [op EXCEPT !.result = "ok", !.requeue = 30, !.errorMetric = TRUE]

\* reconcile, lines 498-610: the next status, its patch, the removal of the
\* promote annotation, and the requeue interval
UpdateStatus(strategy, r, obs, o, env) ==
    With(ComputeNextStatus(strategy, r, obs.now, obs.wall), LAMBDA desired_status :
    LET had_promote_annotation == HasPromoteAnnotation(r)
        was_paused_before == r.status.some /\ r.status.phase = "Paused"
        changed == r.status # desired_status
        progressed_due_to_annotation ==
            had_promote_annotation /\ was_paused_before /\ changed
        oe == EmitStatusChangeEvent(o, env, r.status, desired_status)
        oo == IF desired_status.phase # "None"
              THEN EmitOccurrence(oe, env, r, IF r.status.some THEN r.status.phase ELSE "None",
                                  desired_status.phase, strategy)
              ELSE oe
        op == PatchStatus(oo, env, desired_status)
        oa == IF progressed_due_to_annotation
              THEN [op EXCEPT
                       !.writes = Append(@, Write("annotation", "kulta.io/promote", NoStatus, 0, 0)),
                       !.asked = @ \cup {"annotationPatch"},
                       !.annotations.promote =
                           IF env.annotationPatch = "ok" THEN "absent" ELSE @]
              ELSE op
        done == IF ~changed THEN o
                ELSE IF env.statusPatch # "ok" THEN [op EXCEPT !.result = "KubeError"]
                ELSE oa
    IN AndThen(done, LAMBDA d :
           [d EXCEPT !.result = "ok",
               !.requeue = CalculateRequeueIntervalFromRollout(r, desired_status, obs.now)]))

\* reconcile
Reconcile(obs, env) ==
    LET r == Rollout(obs.spec, obs.annotations, obs.status)
        strategy == SelectStrategy(r)
        o0 == Begin(obs)
        os == [o0 EXCEPT !.strategy = strategy]
        o1 == ReconcileReplicaSets(strategy, r, os, env)
        o2 == AndThen(o1, LAMBDA o : ReconcileTraffic(strategy, r, o, env))
        o3 == AndThen(o2, LAMBDA o : AnalyseMetrics(strategy, r, obs, o, env))
        o4 == AndThen(o3, LAMBDA o : EvaluateAb(strategy, r, obs, o, env))
        o5 == AndThen(o4, LAMBDA o : CheckProgressDeadline(strategy, r, obs, o, env))
    IN
    IF ~ShouldReconcile(obs) THEN [o0 EXCEPT !.skipped = TRUE, !.result = "ok", !.requeue = 5]
    ELSE IF ValidateRollout(r) # "ok" THEN [o0 EXCEPT !.result = "ValidationError"]
    ELSE AndThen(o5, LAMBDA o : UpdateStatus(strategy, r, obs, o, env))

---------------------------------------------------------------------------
(* controller/prometheus_ab.rs and the A/B evaluator of rollout/reconcile.rs *)

\* ABStrategy: max_duration and analysis (an ABAnalysisConfig with
\* min_duration and min_sample_size; confidence_level is left at its
\* default, 0.95)
ABStrategy(max_duration, analysis, min_duration, min_sample_size) ==
    [some |-> TRUE, maxDuration |-> max_duration, analysis |-> analysis,
     minDuration |-> min_duration, minSampleSize |-> min_sample_size]
NoAbTesting ==
    [some |-> FALSE, maxDuration |-> NoDur, analysis |-> FALSE,
     minDuration |-> NoDur, minSampleSize |-> None]

\* the answer of the metrics backend to one query: a value or an error
QueryOk(v) == [ok |-> TRUE, v |-> v]
QueryErr == [ok |-> FALSE, v |-> 0]

\* the four queries of the evaluator and the order it makes them in
QueryNames == {"sample_a", "sample_b", "rate_a", "rate_b"}
QueryOrder == [n \in QueryNames |->
    IF n = "sample_a" THEN 1 ELSE IF n = "sample_b" THEN 2
    ELSE IF n = "rate_a" THEN 3 ELSE 4]

\* calculate_ab_significance for direction Lower at confidence level 0.95.
\* Rates are in tenths.  The achieved confidence 1 - 2(1 - cdf(|z|)) is at
\* least 0.95 iff z^2 >= 1.96^2 = 2401/625, where
\* z^2 = d^2 n_a n_b n / (s (10 n - s)) for d = rate_b - rate_a,
\* n = n_a + n_b and s = rate_a n_a + rate_b n_b (the pooled proportion is
\* s / (10 n))
CalculateAbSignificance(rate_a, rate_b, n_a, n_b) ==
    LET n == n_a + n_b
        s == rate_a * n_a + rate_b * n_b
        d == rate_b - rate_a
        insignificant == [is_significant |-> FALSE, winner |-> "None"]
    IN IF n_a < 30 \/ n_b < 30 THEN insignificant
       ELSE IF s * (10 * n - s) = 0 THEN insignificant
       ELSE IF 625 * d * d * n_a * n_b * n >= 2401 * s * (10 * n - s)
       THEN [is_significant |-> TRUE, winner |-> IF rate_b < rate_a THEN "B" ELSE "A"]
       ELSE insignificant

\* evaluate_ab_metrics: one ABMetricResult per metric
EvaluateAbMetrics(metrics) ==
    [i \in DOMAIN metrics |->
        CalculateAbSignificance(metrics[i].rate_a, metrics[i].rate_b,
                                metrics[i].n_a, metrics[i].n_b)]

NoConclusion == [some |-> FALSE, winner |-> "None", reason |-> "None"]

\* determine_experiment_conclusion
DetermineExperimentConclusion(results) ==
    LET significant_results == SelectSeq(results, LAMBDA r : r.is_significant)
        a_wins == Cardinality({i \in DOMAIN significant_results :
                                  significant_results[i].winner = "A"})
        b_wins == Cardinality({i \in DOMAIN significant_results :
                                  significant_results[i].winner = "B"})
    IN IF results = <<>> THEN NoConclusion
       ELSE IF significant_results = <<>> THEN NoConclusion
       ELSE IF a_wins > 0 /\ b_wins = 0
       THEN [some |-> TRUE, winner |-> "A", reason |-> "ConsensusReached"]
       ELSE IF b_wins > 0 /\ a_wins = 0
       THEN [some |-> TRUE, winner |-> "B", reason |-> "ConsensusReached"]
       ELSE IF a_wins = Len(significant_results) \/ b_wins = Len(significant_results)
       THEN [some |-> TRUE, winner |-> IF a_wins > b_wins THEN "A" ELSE "B",
             reason |-> "SignificanceReached"]
       ELSE NoConclusion

\* ABExperimentEvaluation, with the number of queries the evaluator made
ABExperimentEvaluation(should_conclude, winner, reason, sample_size_a, sample_size_b, asked) ==
    [should_conclude |-> should_conclude, winner |-> winner, reason |-> reason,
     sample_size_a |-> sample_size_a, sample_size_b |-> sample_size_b, asked |-> asked]

\* evaluate_ab_experiment on the rollout r (its ABStrategy in r.abTesting, the
\* conclude-experiment annotation in r.concludeExperiment) at instant t,
\* when the metrics backend answers q[name] to the query name
EvaluateAbExperiment(r, q, t) ==
    LET ab_strategy == r.abTesting
        started_at == IF r.status.some THEN ParseRfc3339(r.status.abStartedAt) ELSE None
        elapsed == IF started_at.some THEN Some(t - started_at.v) ELSE None
        max_duration == ParseDuration(ab_strategy.maxDuration)
        min_duration == ParseDuration(ab_strategy.minDuration)
        min_samples == UnwrapOr(ab_strategy.minSampleSize, 30)
        sample_a == q["sample_a"]
        sample_b == q["sample_b"]
        rate_a == q["rate_a"]
        rate_b == q["rate_b"]
        inconclusive(asked) ==
            ABExperimentEvaluation(FALSE, "None", "None", None, None, asked)
        counted(asked) ==
            ABExperimentEvaluation(FALSE, "None", "None", Some(sample_a.v),
                                   Some(sample_b.v), asked)
        results == EvaluateAbMetrics(<<[rate_a |-> rate_a.v, rate_b |-> rate_b.v,
                                        n_a |-> sample_a.v, n_b |-> sample_b.v]>>)
        conclusion == DetermineExperimentConclusion(results)
    IN IF ~ab_strategy.some THEN inconclusive(0)
       ELSE IF r.concludeExperiment
       THEN ABExperimentEvaluation(TRUE, "None", "ManualConclusion", None, None, 0)
       ELSE IF max_duration.some /\ elapsed.some /\ elapsed.v >= max_duration.v
       THEN ABExperimentEvaluation(TRUE, "None", "MaxDurationExceeded", None, None, 0)
       ELSE IF ~ab_strategy.analysis THEN inconclusive(0)
       ELSE IF min_duration.some /\ elapsed.some /\ elapsed.v < min_duration.v
       THEN inconclusive(0)
       ELSE IF ~sample_a.ok THEN inconclusive(1)
       ELSE IF ~sample_b.ok THEN inconclusive(2)
       ELSE IF sample_a.v < min_samples \/ sample_b.v < min_samples THEN counted(2)
       ELSE IF ~rate_a.ok THEN counted(3)
       ELSE IF ~rate_b.ok THEN counted(4)
       ELSE IF conclusion.some
       THEN ABExperimentEvaluation(TRUE, conclusion.winner, conclusion.reason,
                                   Some(sample_a.v), Some(sample_b.v), 4)
       ELSE counted(4)

\* the record kept of an evaluation: what the evaluator returned, the instant,
\* the annotation it saw and the answers to the queries it made
NotAsked == [ok |-> FALSE, v |-> 0 - 1]
NoEvaluation ==
    [made |-> FALSE, at |-> 0, annotated |-> FALSE,
     result |-> ABExperimentEvaluation(FALSE, "None", "None", None, None, 0),
     answers |-> [n \in QueryNames |-> NotAsked]]
RecordEvaluation(ev, q, t, annotated) ==
    [made |-> TRUE, at |-> t, annotated |-> annotated, result |-> ev,
     answers |-> [n \in QueryNames |-> IF QueryOrder[n] <= ev.asked THEN q[n]
                                       ELSE NotAsked]]

---------------------------------------------------------------------------
(* The state machine *)

\* the requests and sends that may fail in a reconcile
FaultPoints == {"rsGet", "rsWrite", "routePatch", "statusPatch", "annotationPatch", "sink"}

\* the evaluator's verdict: no conclusion, or the reason of one (it has no
\* error return; EvaluateAbExperiment computes the verdict)
AbAnswers == {"continue", "ManualConclusion", "MaxDurationExceeded", "ConsensusReached"}

Answer(F, point) == IF point \in F THEN "error" ELSE "ok"

\* the HTTP status of a failed object-store answer: 404 (kube::Error::Api with
\* code 404) or another error.  A get and a route patch are answered 404
\* exactly when the object is absent, which the state says; a scale patch, a
\* status patch and an annotation patch are answered 404 when the object was
\* deleted after the reconcile read it (deletions: whether the reconcile
\* may meet one).
ErrorCodes == {404, 500}
PatchedAfterRead == {"rsWrite", "statusPatch", "annotationPatch"}
CodesFor(F, deletions) ==
    IF deletions /\ F \cap PatchedAfterRead # {} THEN ErrorCodes
    ELSE IF F \ {"sink"} # {} THEN {500}
    ELSE {0}

\* the answers of the collaborators during one reconcile
Env(m, a, ab, F) ==
    [metrics |-> m, advisor |-> a, ab |-> ab,
     rsGet |-> Answer(F, "rsGet"), rsWrite |-> Answer(F, "rsWrite"),
     routePatch |-> Answer(F, "routePatch"), statusPatch |-> Answer(F, "statusPatch"),
     annotationPatch |-> Answer(F, "annotationPatch"), sink |-> Answer(F, "sink"),
     occurrenceWrite |-> Answer(F, "occurrenceWrite"), code |-> 500]

\* a collaborator gives an answer only to a reconcile that asks it: the metrics
\* backend when evaluate_rollout_metrics reaches its query, the advisor when
\* the rollout's advisor config calls for consultation, the A/B evaluator
\* for an Experimenting rollout
MetricAnswersFor(obs) ==
    LET r == Rollout(obs.spec, obs.annotations, obs.status)
    IN IF obs.status.some /\ obs.status.phase = "Progressing"
          /\ EvaluateRolloutMetrics(r, Env("healthy", "Continue", "continue", {}), obs.now).asked
       THEN MetricAnswers ELSE {"healthy"}
AdvisorAnswersFor(obs) ==
    IF obs.status.some /\ obs.status.phase = "Progressing"
       /\ ResolveAdvisor(obs.spec, obs.advisorCache).advisor = "http"
    THEN AdvisorAnswers ELSE {"Continue"}
AbAnswersFor(obs) ==
    IF obs.status.some /\ obs.status.phase = "Experimenting" THEN AbAnswers ELSE {"continue"}

\* the failures a reconcile can meet.  A request that is never made cannot
\* fail, and up to its first failure a reconcile makes the requests of the run
\* in which nothing fails.  Every failed object-store request ends the
\* reconcile, except the annotation patch, which is its last request: so one
\* failing request, with or without a failing event sink, is every case.
\* The occurrence directory of the reconcile loop can be written.
FaultSetsFor(obs, m, a, ab) ==
    {F \in SUBSET (Reconcile(obs, Env(m, a, ab, {})).asked \cap FaultPoints) :
        Cardinality(F \ {"sink"}) <= 1}

\* what a reconcile started now observes
Observed ==
    [spec |-> spec, annotations |-> annotations, status |-> status,
     replicasets |-> replicasets, route |-> route, now |-> now, wall |-> wall,
     leaderElection |-> ctx.leaderElection, isLeader |-> isLeader,
     advisorCache |-> advisorCache]

\* the record kept of a reconcile: what it observed, the failures it met,
\* what it sent and what it returned
Record(obs, F, code, o) ==
    [ran |-> TRUE,
     observed |-> obs.status, promote |-> obs.annotations.promote,
     at |-> obs.now, wasLeader |-> obs.isLeader, faults |-> F, code |-> code,
     result |-> o.result, requeue |-> o.requeue,
     writes |-> o.writes, events |-> o.events, occurrences |-> o.occurrences,
     queries |-> o.queries, metrics |-> o.metrics, advised |-> o.advised,
     skipped |-> o.skipped, strategy |-> o.strategy]

NoRecord ==
    [ran |-> FALSE,
     observed |-> NoStatus, promote |-> "absent",
     at |-> 0, wasLeader |-> FALSE, faults |-> {}, code |-> 0,
     result |-> "pending", requeue |-> NoRequeue,
     writes |-> <<>>, events |-> <<>>, occurrences |-> <<>>,
     queries |-> <<>>, metrics |-> "none", advised |-> "none", skipped |-> FALSE,
     strategy |-> "none"]

\* no reconcile is under way
NoFlight ==
    [running |-> FALSE, pending |-> <<>>, sent |-> 0, asFollower |-> FALSE,
     status |-> NoStatus, annotations |-> [promote |-> "absent"],
     replicasets |-> NoReplicaSets, route |-> NoRoute, advisorCache |-> {}]

\* the Clock given to Context::new: the SystemClock, or a clock that is set
\* by hand.  Only the blue-green handler reads the wall clock directly, so
\* for the other strategies the two clocks cannot be told apart.
Clocks == {"system", "mock"}

\* the status the controller finds when it first sees the rollout: none, or
\* for a canary whose first step has a timed pause one that another writer of
\* the status subresource left at step 0 without pauseStartTime (the field is
\* optional in RolloutStatus)
StoredStatuses(s) ==
    {NoStatus} \cup
    (IF "canary" \in s.strategies /\ Len(s.steps) > 0 /\ s.steps[1].setWeight.some
        /\ s.steps[1].pause /\ s.steps[1].duration.some /\ ~s.analysis
     THEN {[DefaultStatus EXCEPT !.phase = "Progressing",
               !.currentStepIndex = Some(0),
               !.currentWeight = s.steps[1].setWeight,
               !.progressStartedAt = ToRfc3339(0)]}
     ELSE {})

Init ==
    /\ spec \in RolloutSpecs
    /\ ctx \in {c \in [leaderElection : BOOLEAN, clock : Clocks] :
                   c.clock = "mock" => "blue_green" \in spec.strategies}
    /\ annotations = [promote |-> "absent"]
    /\ status \in StoredStatuses(spec)
    /\ replicasets = NoReplicaSets
    /\ route \in (IF spec.bgTrafficRouting THEN {UserRoute, NoRoute}
                  ELSE IF spec.canaryTrafficRouting THEN {UserRoute}
                  ELSE {NoRoute})
    /\ now = 0
    /\ wall = 0
    /\ isLeader = FALSE
    /\ advisorCache = {}
    /\ last = NoRecord
    /\ abTesting = NoAbTesting
    /\ concludeExperiment = FALSE
    /\ evaluation = NoEvaluation
    /\ plan = NoPlan
    /\ emission = NoEmission
    /\ resolving = NoResolving
    /\ conversion = NoConversion
    /\ handling = NoHandling
    /\ flight = NoFlight

\* one run of reconcile on the rollout
ReconcileOnce(deletions) ==
    \E m \in MetricAnswersFor(Observed), ab \in AbAnswersFor(Observed) :
      \* the advisor is asked only after the metrics backend has answered
      \E a \in (IF m = "error" THEN {"Continue"} ELSE AdvisorAnswersFor(Observed)) :
      \E F \in FaultSetsFor(Observed, m, a, ab) : \E code \in CodesFor(F, deletions) :
      \E env \in {[Env(m, a, ab, F) EXCEPT !.code = code]} :
      \E o \in {Reconcile(Observed, env)} :
           /\ status' = o.status
           /\ annotations' = o.annotations
           /\ replicasets' = o.replicasets
           /\ route' = o.route
           /\ advisorCache' = o.advisorCache
           /\ last' = Record(Observed, F, code, o)
           /\ UNCHANGED <<sideVars, ctx, spec, now, wall, isLeader>>

\* the controller runs reconcile once on the rollout
DoReconcile == ReconcileOnce(FALSE)

\* time passes.  With the SystemClock the injected clock is the wall clock;
\* a MockClock is moved by set/advance while no wall-clock time passes
Tick ==
    /\ \E t \in TimePoints :
          t > now /\ now' = t /\ wall' = (IF ctx.clock = "system" THEN t ELSE wall)
    /\ last' = NoRecord
    /\ UNCHANGED <<sideVars, ctx, spec, annotations, status, replicasets, route, isLeader,
                   advisorCache>>

\* the values the user gives the kulta.io/promote annotation
PromoteValues == {"true"}

\* the user sets the kulta.io/promote annotation
SetPromote ==
    /\ \E v \in PromoteValues : v # annotations.promote /\ annotations' = [promote |-> v]
    /\ last' = NoRecord
    /\ UNCHANGED <<sideVars, ctx, spec, status, replicasets, route, now, wall, isLeader,
                   advisorCache>>

\* the user removes the annotation
RemovePromote ==
    /\ annotations.promote # "absent"
    /\ annotations' = [promote |-> "absent"]
    /\ last' = NoRecord
    /\ UNCHANGED <<sideVars, ctx, spec, status, replicasets, route, now, wall, isLeader,
                   advisorCache>>

\* LeaderState::set_leader(true), on acquiring the lease
GainLeadership ==
    /\ ctx.leaderElection /\ ~isLeader
    /\ isLeader' = TRUE
    /\ last' = NoRecord
    /\ UNCHANGED <<sideVars, ctx, spec, annotations, status, replicasets, route, now, wall,
                   advisorCache>>

\* LeaderState::set_leader(false), on losing the lease
LoseLeadership ==
    /\ ctx.leaderElection /\ isLeader
    /\ isLeader' = FALSE
    /\ last' = NoRecord
    /\ UNCHANGED <<sideVars, ctx, spec, annotations, status, replicasets, route, now, wall,
                   advisorCache>>

Next ==
    \/ DoReconcile
    \/ Tick
    \/ SetPromote
    \/ RemovePromote
    \/ GainLeadership
    \/ LoseLeadership

Spec == Init /\ [][Next]_vars

---------------------------------------------------------------------------
(* The reconcile loop beside a user who also deletes objects: a patch of an *)
(* object that was deleted after the reconcile read it is answered 404      *)

\* the rollouts whose reconciles ask no HTTP advisor
InitDeletions == Init /\ (spec.analysis => spec.advisorLevel \in {"Off", "Context"})

DoReconcileAmidDeletions == ReconcileOnce(TRUE)

NextDeletions ==
    \/ DoReconcileAmidDeletions
    \/ Tick
    \/ SetPromote
    \/ RemovePromote
    \/ GainLeadership
    \/ LoseLeadership

SpecDeletions == InitDeletions /\ [][NextDeletions]_vars

---------------------------------------------------------------------------
(* The A/B evaluator on its own: evaluate_ab_experiment applied to an      *)
(* Experimenting rollout, whatever the backend answers                      *)

\* the ABStrategy configs a user may give: with or without maxDuration, with
\* or without analysis, minDuration unset, "35s" or "2d" (the unit d is none
\* parse_duration reads), minSampleSize unset or 5
AbStrategies ==
    {ABStrategy(maxd, FALSE, NoDur, None) : maxd \in {NoDur, Dur(60, "s")}}
    \cup {ABStrategy(maxd, TRUE, mind, n) :
            maxd \in {NoDur, Dur(60, "s")},
            mind \in {NoDur, Dur(35, "s"), Dur(2, "d")},
            n \in {None, Some(5)}}

\* the answers of the metrics backend: sample counts below and above the 30
\* of the significance test, error rates in tenths
SampleAnswers == {QueryErr, QueryOk(10), QueryOk(40)}
RateAnswers == {QueryErr, QueryOk(1), QueryOk(5)}
QueryAnswers ==
    {q \in [QueryNames -> SampleAnswers \cup RateAnswers] :
        /\ q["sample_a"] \in SampleAnswers /\ q["sample_b"] \in SampleAnswers
        /\ q["rate_a"] \in RateAnswers /\ q["rate_b"] \in RateAnswers}

\* the status ABTestingStrategyHandler::compute_next_status writes when the
\* experiment starts, at instant 0
ExperimentingStatus ==
    [DefaultStatus EXCEPT !.phase = "Experimenting",
        !.message = Msg("A/B experiment started", 0, 0),
        !.abStartedAt = ToRfc3339(0)]

InitAb ==
    /\ spec \in {s \in RolloutSpecs : s.strategies = {"ab_testing"}}
    /\ ctx = [leaderElection |-> FALSE, clock |-> "system"]
    /\ annotations = [promote |-> "absent"]
    /\ status = ExperimentingStatus
    /\ replicasets = NoReplicaSets
    /\ route = NoRoute
    /\ now = 0
    /\ wall = 0
    /\ isLeader = FALSE
    /\ advisorCache = {}
    /\ last = NoRecord
    /\ abTesting \in AbStrategies
    /\ concludeExperiment = FALSE
    /\ evaluation = NoEvaluation
    /\ plan = NoPlan
    /\ emission = NoEmission
    /\ resolving = NoResolving
    /\ conversion = NoConversion
    /\ handling = NoHandling
    /\ flight = NoFlight

\* the reconcile of an Experimenting A/B rollout calls the evaluator
DoEvaluateAbExperiment ==
    /\ abTesting.some /\ status.some /\ status.phase = "Experimenting"
    /\ \E q \in QueryAnswers :
         \E ev \in {EvaluateAbExperiment(
                       [abTesting |-> abTesting, concludeExperiment |-> concludeExperiment,
                        status |-> status], q, now)} :
            evaluation' = RecordEvaluation(ev, q, now, concludeExperiment)
    /\ UNCHANGED <<mainVars, besideAbVars, abTesting, concludeExperiment>>

\* the user sets the kulta.io/conclude-experiment annotation
SetConclude ==
    /\ ~concludeExperiment
    /\ concludeExperiment' = TRUE
    /\ UNCHANGED <<mainVars, besideAbVars, abTesting, evaluation>>

\* the user removes it
RemoveConclude ==
    /\ concludeExperiment
    /\ concludeExperiment' = FALSE
    /\ UNCHANGED <<mainVars, besideAbVars, abTesting, evaluation>>

NextAb ==
    \/ DoEvaluateAbExperiment
    \/ Tick
    \/ SetConclude
    \/ RemoveConclude

SpecAb == InitAb /\ [][NextAb]_vars

---------------------------------------------------------------------------
(* The replica planner on its own: calculate_replica_split_with_surge      *)
(* applied to valid arguments                                              *)

\* the arguments: replicas >= 0, a weight in 0..100, and for maxSurge and
\* maxUnavailable the strings is_valid_surge_format accepts, up to the
\* largest absolute number an i32 holds
PlannerReplicas == {0, 1, 3, 10}
PlannerWeights == {0, 20, 50, 100}
PlannerSurges == {NoSurge, Surge(0, FALSE), Surge(5, FALSE), Surge(25, TRUE),
                  Surge(100, TRUE), Surge(I32Max, FALSE)}
PlannerCalls ==
    {PlannerCall(t, w, ms, mu, oc) :
        t \in PlannerReplicas, w \in PlannerWeights, ms \in PlannerSurges,
        mu \in PlannerSurges, oc \in BOOLEAN}

\* the reconcile loop at rest, for the specifications of single functions
MainIdle ==
    /\ spec \in {s \in RolloutSpecs : s.name = "simple"}
    /\ ctx = [leaderElection |-> FALSE, clock |-> "system"]
    /\ annotations = [promote |-> "absent"]
    /\ status = NoStatus
    /\ replicasets = NoReplicaSets
    /\ route = NoRoute
    /\ now = 0
    /\ wall = 0
    /\ isLeader = FALSE
    /\ advisorCache = {}
    /\ last = NoRecord

InitPlanner ==
    /\ MainIdle
    /\ abTesting = NoAbTesting
    /\ concludeExperiment = FALSE
    /\ evaluation = NoEvaluation
    /\ plan \in PlannerCalls
    /\ emission = NoEmission
    /\ resolving = NoResolving
    /\ conversion = NoConversion
    /\ handling = NoHandling
    /\ flight = NoFlight

\* the planner is called
DoCalculateReplicaSplit ==
    /\ ~plan.called
    /\ plan' =
         IF plan.overflow_checks /\ ReplicaSplitPanics(plan.total_replicas, plan.max_surge)
         THEN [plan EXCEPT !.called = TRUE, !.panicked = TRUE]
         ELSE LET split == CalculateReplicaSplitWithSurge(plan.total_replicas,
                               plan.canary_weight, plan.max_surge, plan.max_unavailable)
              IN [plan EXCEPT !.called = TRUE, !.stable = split[1], !.canary = split[2]]
    /\ UNCHANGED besidePlannerVars

NextPlanner == DoCalculateReplicaSplit

SpecPlanner == InitPlanner /\ [][NextPlanner]_vars

---------------------------------------------------------------------------
(* The advisor resolver on its own: reconciles of rollouts that name the    *)
(* same advisor call resolve_advisor at the same time                       *)

InitResolver ==
    /\ MainIdle
    /\ abTesting = NoAbTesting
    /\ concludeExperiment = FALSE
    /\ evaluation = NoEvaluation
    /\ plan = NoPlan
    /\ emission = NoEmission
    /\ resolving = NoResolving
    /\ conversion = NoConversion
    /\ handling = NoHandling
    /\ flight = NoFlight

\* a reconcile calls resolve_advisor and reaches the lookup
DoLookup ==
    /\ \E t \in Reconcilers, k \in AdvisorKeys :
          /\ resolving.pc[t] = "idle"
          /\ resolving.constructed[k] < MaxAdvisors
          /\ resolving' = ResolveLookup(resolving, t, k)
    /\ UNCHANGED besideResolverVars

\* after a miss it constructs the advisor
DoConstruct ==
    /\ \E t \in Reconcilers :
          /\ resolving.pc[t] = "missed"
          /\ resolving' = ResolveConstruct(resolving, t)
    /\ UNCHANGED besideResolverVars

\* and inserts it
DoInsert ==
    /\ \E t \in Reconcilers :
          /\ resolving.pc[t] = "constructed"
          /\ resolving' = ResolveInsert(resolving, t)
    /\ UNCHANGED besideResolverVars

NextResolver == DoLookup \/ DoConstruct \/ DoInsert

SpecResolver == InitResolver /\ [][NextResolver]_vars

---------------------------------------------------------------------------
(* The version converters on their own: a valid Rollout is converted from    *)
(* version to version, by the webhook or by the typed functions              *)

\* the valid Rollouts converted: the v1beta1 fields set or not, to the
\* defaults or to other values
ConvertedRollouts(version) ==
    { [apiVersion |-> ApiVersion(version),
       spec |-> ("replicas" :> replicas)
                @@ Field("maxSurge", "maxSurge" \in S, max_surge)
                @@ Field("maxUnavailable", "maxUnavailable" \in S, max_unavailable)
                @@ Field("progressDeadlineSeconds", "progressDeadlineSeconds" \in S, deadline)] :
        replicas \in {1, 7}, S \in SUBSET NewFields, max_surge \in {"25%", "50%"},
        max_unavailable \in {"0", "1"}, deadline \in {600, 300} }

InitConverter ==
    /\ MainIdle
    /\ abTesting = NoAbTesting
    /\ concludeExperiment = FALSE
    /\ evaluation = NoEvaluation
    /\ plan = NoPlan
    /\ emission = NoEmission
    /\ resolving = NoResolving
    /\ conversion = NoConversion
    /\ handling = NoHandling
    /\ flight = NoFlight

\* a conversion request arrives: an object at one of the versions
DoReceive ==
    /\ conversion = NoConversion
    /\ handling = NoHandling
    /\ flight = NoFlight
    /\ \E via \in Converters, version \in Versions :
          \E r \in ConvertedRollouts(version) :
          conversion' = [via |-> via, original |-> r, object |-> r, trail |-> <<version>>]
    /\ UNCHANGED besideConverterVars

\* the object is converted to the desired version
DoConvert ==
    /\ conversion # NoConversion
    /\ Len(conversion.trail) < MaxConversions + 1
    /\ \E desired_version \in Versions :
          conversion' = [conversion EXCEPT
                             !.object = Convert(conversion.via, @, desired_version),
                             !.trail = Append(@, desired_version)]
    /\ UNCHANGED besideConverterVars

NextConverter == DoReceive \/ DoConvert

SpecConverter == InitConverter /\ [][NextConverter]_vars

---------------------------------------------------------------------------
(* The A/B handler on its own: compute_next_status applied to an A/B        *)
(* rollout, whatever the value of its promote annotation                    *)

\* the values the kulta.io/promote annotation is given
AnnotationValues == {"absent", "true", "false", ""}

\* the clock readings of a call
HandlerInstants == {0, 1, 2}

\* the statuses an A/B rollout is observed with
AbHandlerStatuses ==
    {NoStatus,
     [DefaultStatus EXCEPT !.phase = "Experimenting",
         !.message = Msg("A/B experiment started", 0, 0), !.abStartedAt = ToRfc3339(0)],
     [DefaultStatus EXCEPT !.phase = "Experimenting",
         !.message = Msg("A/B experiment in progress", 0, 0), !.abStartedAt = ToRfc3339(0),
         !.abConclusionReason = "ConsensusReached"],
     [DefaultStatus EXCEPT !.phase = "Concluded",
         !.message = Msg("A/B experiment concluded, awaiting promotion", 0, 0),
         !.abStartedAt = ToRfc3339(0), !.abConclusionReason = "ConsensusReached"],
     [DefaultStatus EXCEPT !.phase = "Completed",
         !.message = Msg("A/B experiment promoted", 0, 0),
         !.abStartedAt = ToRfc3339(0), !.abConclusionReason = "ConsensusReached"]}

AbRolloutSpec == CHOOSE s \in RolloutSpecs : s.strategies = {"ab_testing"}

InitAbHandler ==
    /\ MainIdle
    /\ abTesting = NoAbTesting
    /\ concludeExperiment = FALSE
    /\ evaluation = NoEvaluation
    /\ plan = NoPlan
    /\ emission = NoEmission
    /\ resolving = NoResolving
    /\ conversion = NoConversion
    /\ handling = NoHandling
    /\ flight = NoFlight

\* the handler is given an A/B rollout and the instant of the injected clock
DoObserveAb ==
    /\ ~handling.called
    /\ \E v \in AnnotationValues, st \in AbHandlerStatuses, t \in HandlerInstants,
          wallNow \in HandlerInstants :
          handling' = [NoHandling EXCEPT !.called = TRUE, !.promote = v, !.observed = st,
                           !.now = t, !.wall = wallNow]
    /\ UNCHANGED besideAbHandlerVars

\* compute_next_status returns
DoAbComputeNextStatus ==
    /\ handling.called /\ ~handling.made
    /\ handling' = [handling EXCEPT !.made = TRUE,
           !.next = AbComputeNextStatus(
                        Rollout(AbRolloutSpec, [promote |-> handling.promote], handling.observed),
                        handling.now, handling.wall)]
    /\ UNCHANGED besideAbHandlerVars

NextAbHandler == DoObserveAb \/ DoAbComputeNextStatus

SpecAbHandler == InitAbHandler /\ [][NextAbHandler]_vars

---------------------------------------------------------------------------
(* The reconcile taken request by request, beside the leader elector: the   *)
(* leader gate is read once, at the start; every request to the API server  *)
(* is an await point, at which the elector's task may change LeaderState    *)

\* the rollouts reconciled request by request
GateSpecs == {"canary-timed", "bluegreen-auto", "simple"}

InitGate ==
    /\ Init
    /\ ctx.leaderElection
    /\ ctx.clock = "system"
    /\ spec.name \in GateSpecs
    /\ status = NoStatus

\* reconcile is called: the leader gate, and past it the requests the
\* reconcile is going to send, in order
DoPassGate ==
    /\ ~flight.running
    /\ \E m \in MetricAnswersFor(Observed) :
       \E env \in {Env(m, "Continue", "continue", {})} :
       \E o \in {Reconcile(Observed, env)} :
          /\ flight' = [running |-> ~o.skipped, pending |-> o.writes, sent |-> 0,
                        asFollower |-> FALSE, status |-> o.status,
                        annotations |-> o.annotations, replicasets |-> o.replicasets,
                        route |-> o.route, advisorCache |-> o.advisorCache]
          /\ last' = Record(Observed, {}, 0, o)
    /\ UNCHANGED <<besideGateVars, ctx, spec, annotations, status, replicasets, route, now,
                   wall, isLeader, advisorCache>>

\* the reconcile sends its next write to the API server, whoever leads by now
DoSendWrite ==
    /\ flight.running
    /\ flight.sent < Len(flight.pending)
    /\ flight' = [flight EXCEPT !.sent = @ + 1, !.asFollower = @ \/ ~isLeader]
    /\ UNCHANGED <<besideGateVars, mainVars>>

\* the reconcile returns: the store is as its requests left it
DoReturn ==
    /\ flight.running
    /\ flight.sent = Len(flight.pending)
    /\ status' = flight.status
    /\ annotations' = flight.annotations
    /\ replicasets' = flight.replicasets
    /\ route' = flight.route
    /\ advisorCache' = flight.advisorCache
    /\ flight' = [NoFlight EXCEPT !.asFollower = flight.asFollower]
    /\ UNCHANGED <<besideGateVars, ctx, spec, now, wall, isLeader, last>>

\* time passes between two reconciles
TickBetweenReconciles == ~flight.running /\ Tick

NextGate ==
    \/ DoPassGate
    \/ DoSendWrite
    \/ DoReturn
    \/ TickBetweenReconciles
    \/ GainLeadership
    \/ LoseLeadership

SpecGate == InitGate /\ [][NextGate]_vars

---------------------------------------------------------------------------
(* The reconcile loop on a routed canary with a progress deadline and two   *)
(* pause steps, the second reached while the deadline still runs            *)

DeadlineSpecs ==
    { [BaseSpec EXCEPT !.name = "canary-deadline",
          !.steps = <<Step(Some(20), TRUE, Dur(10, "s")), Step(Some(50), TRUE, NoDur),
                      Step(Some(100), FALSE, NoDur)>>,
          !.canaryTrafficRouting = TRUE,
          !.progressDeadlineSeconds = Some(35)] }

InitDeadline ==
    /\ spec \in DeadlineSpecs
    /\ ctx \in [leaderElection : {FALSE}, clock : {"system"}]
    /\ annotations = [promote |-> "absent"]
    /\ status = NoStatus
    /\ replicasets = NoReplicaSets
    /\ route = UserRoute
    /\ now = 0
    /\ wall = 0
    /\ isLeader = FALSE
    /\ advisorCache = {}
    /\ last = NoRecord
    /\ abTesting = NoAbTesting
    /\ concludeExperiment = FALSE
    /\ evaluation = NoEvaluation
    /\ plan = NoPlan
    /\ emission = NoEmission
    /\ resolving = NoResolving
    /\ conversion = NoConversion
    /\ handling = NoHandling
    /\ flight = NoFlight

NextDeadline ==
    \/ DoReconcile
    \/ Tick
    \/ SetPromote
    \/ RemovePromote

SpecDeadline == InitDeadline /\ [][NextDeadline]_vars

---------------------------------------------------------------------------
(* The reconcile loop left to itself on a canary whose pauses all have a    *)
(* duration: no user, reconciles re-run as requeued, patches that may fail  *)
(* and are retried                                                          *)

ConvergingSpecs ==
    {s \in RolloutSpecs : s.name \in {"canary-timed", "canary-peak"}}
    \cup
    { [BaseSpec EXCEPT !.name = "canary-two-pauses",
          !.steps = <<Step(Some(20), TRUE, Dur(10, "s")), Step(Some(50), TRUE, Dur(30, "s")),
                      Step(Some(100), FALSE, NoDur)>>] }

InitConverging ==
    /\ spec \in ConvergingSpecs
    /\ ctx \in [leaderElection : {FALSE}, clock : {"system"}]
    /\ annotations = [promote |-> "absent"]
    /\ status = NoStatus
    /\ replicasets = NoReplicaSets
    /\ route = (IF spec.canaryTrafficRouting THEN UserRoute ELSE NoRoute)
    /\ now = 0
    /\ wall = 0
    /\ isLeader = FALSE
    /\ advisorCache = {}
    /\ last = NoRecord
    /\ abTesting = NoAbTesting
    /\ concludeExperiment = FALSE
    /\ evaluation = NoEvaluation
    /\ plan = NoPlan
    /\ emission = NoEmission
    /\ resolving = NoResolving
    /\ conversion = NoConversion
    /\ handling = NoHandling
    /\ flight = NoFlight

\* a run of reconcile in which no request fails
DoReconcileUnfailed ==
    \E env \in {Env("healthy", "Continue", "continue", {})} :
    \E o \in {Reconcile(Observed, env)} :
        /\ status' = o.status
        /\ annotations' = o.annotations
        /\ replicasets' = o.replicasets
        /\ route' = o.route
        /\ advisorCache' = o.advisorCache
        /\ last' = Record(Observed, {}, 0, o)
        /\ UNCHANGED <<sideVars, ctx, spec, now, wall, isLeader>>

\* the requeue interval passes: while the stored status is the one a
\* reconcile would compute (the rollout waits), the clock moves on to the
\* next instant
RequeueWait ==
    /\ status.some
    /\ ComputeNextStatus(SelectStrategy(Rollout(spec, annotations, status)),
                         Rollout(spec, annotations, status), now, wall) = status
    /\ \E t \in TimePoints :
          /\ t > now /\ \A u \in TimePoints : u > now => t <= u
          /\ now' = t /\ wall' = t
    /\ last' = NoRecord
    /\ UNCHANGED <<sideVars, ctx, spec, annotations, status, replicasets, route, isLeader,
                   advisorCache>>

NextConverging ==
    \/ DoReconcile
    \/ RequeueWait

\* ENABLED <<DoReconcileUnfailed>>_vars as a state predicate: an unfailed
\* reconcile would change the stored objects or the record of the last run
ReconcileUnfailedEnabled ==
    \E o \in {Reconcile(Observed, Env("healthy", "Continue", "continue", {}))} :
        <<o.status, o.annotations, o.replicasets, o.route, o.advisorCache,
          Record(Observed, {}, 0, o)>>
            # <<status, annotations, replicasets, route, advisorCache, last>>

\* reconciles keep being run, a retried request succeeds in the end, and the
\* clock advances: the controller requeues every rollout it has reconciled
\* and retries a failed one. The first condition is
\* WF_vars(DoReconcileUnfailed) with its ENABLED written out
SpecConverging ==
    /\ InitConverging /\ [][NextConverging]_vars
    /\ ([]<>~ReconcileUnfailedEnabled \/ []<><<DoReconcileUnfailed>>_vars)
    /\ WF_vars(RequeueWait)

---------------------------------------------------------------------------
(* The event emitter on its own: emit_status_change_event applied to a     *)
(* pair of statuses                                                         *)

\* the statuses of a pair: absent, or any phase (or none) at step 0 or 1 or
\* without a step index
EventStatuses ==
    {NoStatus} \cup
    {[DefaultStatus EXCEPT !.phase = p, !.currentStepIndex = i] :
        p \in Phases \cup {"None"}, i \in {None, Some(0), Some(1)}}

\* the calls: reconcile emits only for a status that differs from the stored
\* one, and the new status is never absent
EmissionCalls ==
    {Emission(old, new, sink) :
        old \in EventStatuses, new \in EventStatuses \ {NoStatus}, sink \in {"ok", "error"}}

InitEvents ==
    /\ MainIdle
    /\ abTesting = NoAbTesting
    /\ concludeExperiment = FALSE
    /\ evaluation = NoEvaluation
    /\ plan = NoPlan
    /\ emission \in {e \in EmissionCalls : e.old_status # e.new_status}
    /\ resolving = NoResolving
    /\ conversion = NoConversion
    /\ handling = NoHandling
    /\ flight = NoFlight

\* the emitter is called
DoEmitStatusChangeEvent ==
    /\ ~emission.made
    /\ \E F \in {IF emission.sink = "ok" THEN {} ELSE {"sink"}} :
       \E o \in {EmitStatusChangeEvent(Begin(Observed), Env("healthy", "Continue", "continue", F),
                                       emission.old_status, emission.new_status)} :
          emission' = [emission EXCEPT !.made = TRUE, !.events = o.events]
    /\ UNCHANGED besideEventVars

NextEvents == DoEmitStatusChangeEvent

SpecEvents == InitEvents /\ [][NextEvents]_vars



---------------------------------------------------------------------------
(* Properties *)

\* the last reconcile met no failing request
NoFaults == last.faults = {}

\* the last reconcile sent a status patch carrying phase Failed
WroteFailed == \E i \in DOMAIN last.writes :
    last.writes[i].kind = "status" /\ last.writes[i].st.phase = "Failed"

C2_UnhealthyMetricsWriteFailed ==
    (last.ran /\ last.observed.some /\ last.observed.phase = "Progressing"
        /\ last.metrics = "unhealthy")
    => /\ WroteFailed
       /\ ("statusPatch" \notin last.faults => status.phase = "Failed")

\* C2 happens: the advisor recommended to continue, the metrics were unhealthy
\* and the stored phase went from Progressing to Failed
C2_Witness ==
    /\ last.ran /\ last.observed.some /\ last.observed.phase = "Progressing"
    /\ last.metrics = "unhealthy" /\ last.advised = "Continue"
    /\ status.phase = "Failed"

\* what C3 compares between two reconciles: the status patches sent, the
\* status stored, the result and the requeue interval
AdvisorBlindPart(o) ==
    [patches |-> SelectSeq(o.writes, LAMBDA w : w.kind = "status"),
     status |-> o.status, result |-> o.result, requeue |-> o.requeue]

\* C3: two reconciles of the same observed state that get the same metric
\* answer and the same object-store answers, and differ only in what the
\* advisor answers (where the rollout's advisor is one that is asked), send the same status patches, store the same status and
\* return the same result and requeue interval
C3_AdvisorAnswerChangesNothing ==
    \A m \in MetricAnswersFor(Observed), ab \in AbAnswersFor(Observed) :
      \A F \in FaultSetsFor(Observed, m, "Continue", ab) :
        \A base \in {AdvisorBlindPart(Reconcile(Observed, Env(m, "Continue", ab, F)))} :
          \A a \in AdvisorAnswersFor(Observed) \ {"Continue"} :
            AdvisorBlindPart(Reconcile(Observed, Env(m, a, ab, F))) = base

\* C3 happens: the advisor was consulted during metric analysis and
\* answered Rollback while the metrics were healthy, and the rollout went on
C3_Witness ==
    /\ last.ran /\ last.advised = "Rollback" /\ last.metrics = "healthy"
    /\ NoFaults /\ status.phase \in {"Progressing", "Completed"}

LeftBy(obs, o) ==
    [obs EXCEPT !.status = o.status, !.annotations = o.annotations,
                !.replicasets = o.replicasets, !.route = o.route,
                !.advisorCache = o.advisorCache]

\* the writes of the given kinds among the writes of a reconcile
WritesOf(o, kinds) == SelectSeq(o.writes, LAMBDA w : w.kind \in kinds)

\* C5 (as claimed): a second reconcile on the state left by the first, at the
\* same instant, with the same annotations and the same metric answer, sends
\* no patch at all and returns the first run's requeue interval
C5_ReconcileIsIdempotent ==
    \A m \in MetricAnswersFor(Observed), a \in AdvisorAnswersFor(Observed) :
      \A env \in {Env(m, a, "continue", {})} :
        \A run1 \in {Reconcile(Observed, env)} :
          \A run2 \in {Reconcile(LeftBy(Observed, run1), env)} :
            run2.writes = <<>> /\ run2.requeue = run1.requeue

\* C5 (amended): when the first run succeeds without sending a status patch,
\* the second run sends no status, replica-set or annotation patch, sends the
\* route patch of the first run again and nothing else, and returns the same
\* result and requeue interval
C5_SettledReconcileRepeats ==
    \A m \in MetricAnswersFor(Observed), a \in AdvisorAnswersFor(Observed) :
      \A env \in {Env(m, a, "continue", {})} :
        \A run1 \in {Reconcile(Observed, env)} :
          (run1.result = "ok" /\ WritesOf(run1, {"status"}) = <<>>)
          => \A run2 \in {Reconcile(LeftBy(Observed, run1), env)} :
               /\ WritesOf(run2, {"status", "rs_create", "rs_scale", "annotation"}) = <<>>
               /\ run2.writes = WritesOf(run1, {"route"})
               /\ run2.result = "ok"
               /\ run2.requeue = run1.requeue

\* C5 happens: a canary in the middle of its steps was reconciled, nothing
\* failed, the status was left alone and the replica sets were brought to
\* the split of the current step
C5_Witness ==
    /\ last.ran /\ NoFaults /\ last.result = "ok"
    /\ status.some /\ status.phase = "Progressing" /\ last.observed = status
    /\ \E i \in DOMAIN last.writes : last.writes[i].kind \in {"rs_create", "rs_scale"}
    /\ \E i \in DOMAIN last.writes : last.writes[i].kind = "route"

\* C6: with leader election configured, a reconcile started while the instance
\* is not the leader sends no write, emits no event and no occurrence, asks
\* no metric query and returns a requeue of 5 seconds
C6_NonLeaderDoesNothing ==
    (last.ran /\ ctx.leaderElection /\ ~last.wasLeader)
    => /\ last.writes = <<>>
       /\ last.events = <<>> /\ last.occurrences = <<>>
       /\ last.queries = <<>> /\ last.advised = "none"
       /\ last.result = "ok" /\ last.requeue = 5

\* C6 happens: the instance lost the leadership in the middle of a rollout and
\* a reconcile was skipped
C6_Witness ==
    /\ last.ran /\ ctx.leaderElection /\ ~last.wasLeader /\ last.skipped
    /\ status.some /\ status.phase = "Progressing"

\* the rollout spec breaks a rule of the validator: a negative replica count,
\* or a canary step without setWeight
SpecIsInvalid ==
    \/ spec.replicas < 0
    \/ /\ "canary" \in spec.strategies
       /\ \E i \in DOMAIN spec.steps : ~spec.steps[i].setWeight.some

\* C7: a reconcile that gets to validate an invalid spec returns a validation
\* error, sends no status patch and no other write, and emits no event
C7_InvalidSpecWritesNothing ==
    (last.ran /\ (ctx.leaderElection => last.wasLeader) /\ SpecIsInvalid)
    => /\ last.result = "ValidationError"
       /\ last.writes = <<>>
       /\ last.events = <<>>
       /\ ~status.some /\ replicasets = NoReplicaSets

\* C7 happens: a spec with a negative replica count was reconciled and rejected
C7_Witness ==
    /\ last.ran /\ spec.replicas < 0 /\ last.result = "ValidationError"

\* the status transition of the last reconcile was caused by the promote
\* annotation: a blue-green Preview completed by it, or a canary moved past
\* an indefinite pause
CausedByPromote ==
    /\ last.promote = "true" /\ last.observed.some
    /\ \/ /\ "blue_green" \in spec.strategies
          /\ last.observed.phase = "Preview" /\ status.phase = "Completed"
          /\ status.message.text = "Blue-green rollout completed: promoted to production"
       \/ /\ "canary" \in spec.strategies
          /\ last.observed.phase = "Progressing"
          /\ last.observed.currentStepIndex.some
          /\ last.observed.currentStepIndex.v + 1 \in DOMAIN spec.steps
          /\ spec.steps[last.observed.currentStepIndex.v + 1].pause
          /\ ~spec.steps[last.observed.currentStepIndex.v + 1].duration.some
          /\ status.currentStepIndex = Some(last.observed.currentStepIndex.v + 1)

\* C8: a reconcile whose status transition was caused by the promote
\* annotation sends, after its accepted status patch, a patch that removes
\* the annotation
C8_PromoteAnnotationIsRemoved ==
    (last.ran /\ "statusPatch" \notin last.faults /\ CausedByPromote)
    => \E i, j \in DOMAIN last.writes :
          /\ i < j
          /\ last.writes[i].kind = "status"
          /\ last.writes[j].kind = "annotation"


\* the last reconcile got past the leader gate and met no failing request
RanToTheEnd == last.ran /\ NoFaults /\ (ctx.leaderElection => last.wasLeader)

\* the status scenario 1 expects after the reconcile at t = 0
Scenario1First(st) ==
    /\ st.some /\ st.phase = "Progressing"
    /\ st.currentStepIndex = Some(0) /\ st.currentWeight = Some(20)
    /\ st.pauseStartTime = ToRfc3339(0)

C10_PromotionFlipsRouteInSameReconcile ==
    (spec.name = "bluegreen-auto" /\ RanToTheEnd /\ last.at = 61
        /\ last.observed.some /\ last.observed.phase = "Preview"
        /\ status.phase = "Completed" /\ route.exists)
    => route.first = 0 /\ route.second = 100


\* C11: a reconcile that observes a blue-green rollout in phase Preview
\* stores Completed exactly when the promote annotation is present, or
\* auto-promotion is enabled and autoPromotionSeconds have passed between the
\* pauseStartTime and the instant of the reconcile's clock; otherwise it
\* leaves the status unchanged
C11_PreviewCompletesIffPromotedOrDue ==
    (RanToTheEnd /\ "blue_green" \in spec.strategies
        /\ last.observed.some /\ last.observed.phase = "Preview")
    => LET due == \/ last.promote # "absent"
                  \/ /\ UnwrapOr(spec.autoPromotionEnabled, FALSE)
                     /\ spec.autoPromotionSeconds.some
                     /\ last.observed.pauseStartTime.some
                     /\ last.at - last.observed.pauseStartTime.v
                            >= spec.autoPromotionSeconds.v
       IN /\ (status.phase = "Completed") <=> due
          /\ ~due => status = last.observed

\* the instant from which the progress deadline of a status counts:
\* progressStartedAt, or for a status without it the instant it entered its
\* waiting phase
ProgressStart(st) ==
    IF st.progressStartedAt.some THEN st.progressStartedAt.v ELSE st.pauseStartTime.v

\* C12: with progressDeadlineSeconds = D, a reconcile that observes phase
\* Progressing or Preview more than D seconds after progress started (and no
\* unhealthy or failed metric analysis before it) writes phase Failed with the
\* deadline message and returns with the 30 s requeue; at exactly D seconds
\* it writes no Failed status
C12_DeadlineFailsProgressingAndPreview ==
    (RanToTheEnd /\ spec.progressDeadlineSeconds.some
        /\ last.observed.some /\ last.observed.phase \in {"Progressing", "Preview"}
        /\ last.metrics \in {"none", "healthy"})
    => LET D == spec.progressDeadlineSeconds.v
           elapsed == last.at - ProgressStart(last.observed)
       IN /\ elapsed > D =>
               /\ WroteFailed /\ status.phase = "Failed"
               /\ status.message =
                    Msg("Progress deadline exceeded: no progress made in D seconds", D, 0)
               /\ last.requeue = 30
          /\ elapsed = D => ~WroteFailed


\* the observed status sits on a canary step with a timed pause
OnTimedPause(st) ==
    /\ "canary" \in spec.strategies
    /\ st.some /\ st.phase = "Progressing" /\ st.currentStepIndex.some
    /\ st.currentStepIndex.v + 1 \in DOMAIN spec.steps
    /\ spec.steps[st.currentStepIndex.v + 1].pause
    /\ spec.steps[st.currentStepIndex.v + 1].duration.some

\* C13: a reconcile that observes a status without pauseStartTime on a step
\* with a timed pause (and no promote annotation) starts the pause clock: the
\* status it leaves has pauseStartTime set to the instant of that reconcile,
\* from which the pause duration then counts
C13_MissingPauseStartIsFreshPause ==
    (RanToTheEnd /\ OnTimedPause(last.observed) /\ last.promote = "absent"
        /\ ~last.observed.pauseStartTime.some)
    => status.pauseStartTime = ToRfc3339(last.at)


\* the observed status sits on a canary step whose pause has no duration
OnIndefinitePause(st) ==
    /\ "canary" \in spec.strategies
    /\ st.some /\ st.currentStepIndex.some
    /\ st.currentStepIndex.v + 1 \in DOMAIN spec.steps
    /\ spec.steps[st.currentStepIndex.v + 1].pause
    /\ ~spec.steps[st.currentStepIndex.v + 1].duration.some

\* C14: a reconcile that observes a canary step whose pause has no duration,
\* without the promote annotation at value "true", leaves currentStepIndex as
\* it was, at whatever instant it runs
C14_IndefinitePauseNeedsPromote ==
    (last.ran /\ OnIndefinitePause(last.observed) /\ last.promote # "true")
    => status.currentStepIndex = last.observed.currentStepIndex

\* C14 happens: a minute after the pause began a reconcile without the
\* annotation ran to its end and the rollout is still on the paused step
C14_Witness ==
    /\ last.ran /\ OnIndefinitePause(last.observed) /\ last.promote # "true"
    /\ RanToTheEnd /\ last.at >= 60
    /\ last.observed.pauseStartTime = ToRfc3339(0)
    /\ status.currentStepIndex = Some(0)


\* the status patches the last reconcile sent for a canary rollout
CanaryStatusWrites ==
    IF last.ran /\ "canary" \in spec.strategies
    THEN {last.writes[i].st : i \in {j \in DOMAIN last.writes : last.writes[j].kind = "status"}}
    ELSE {}

\* C15 (as claimed): every status written for a canary rollout has, when set,
\* 0 <= currentStepIndex < len(steps), the status of the completion included
C15_StepIndexBelowLen ==
    \A st \in CanaryStatusWrites :
        st.currentStepIndex.some
        => (0 <= st.currentStepIndex.v /\ st.currentStepIndex.v < Len(spec.steps))

\* C15 (amended): every status written for a canary rollout has, when set,
\* 0 <= currentStepIndex <= len(steps), and the value len(steps) is written
\* only with phase Completed and weight 100
C15_StepIndexAtMostLen ==
    \A st \in CanaryStatusWrites :
        st.currentStepIndex.some
        => /\ 0 <= st.currentStepIndex.v /\ st.currentStepIndex.v <= Len(spec.steps)
           /\ st.currentStepIndex.v = Len(spec.steps)
                => (st.phase = "Completed" /\ st.currentWeight = Some(100))

\* C15 happens: a canary whose last step is below 100% went past it and the
\* status of its completion was written with currentStepIndex = len(steps)
C15_Witness ==
    /\ last.ran /\ spec.steps # <<>> /\ spec.steps[Len(spec.steps)].setWeight # Some(100)
    /\ \E st \in CanaryStatusWrites :
          st.currentStepIndex = Some(Len(spec.steps)) /\ st.phase = "Completed"


\* the last reconcile passed the leader gate and validation and reached
\* strategy dispatch
Dispatched == last.ran /\ last.strategy # "none"

\* C16: a rollout that passes validation and reaches strategy dispatch has
\* exactly one strategy sub-object populated
C16_DispatchedHasOneStrategy ==
    Dispatched => Cardinality(spec.strategies) = 1

\* C17: a rollout whose only populated strategy is A/B is handled by the A/B
\* handler ("ab-testing")
C17_AbOnlyHandledByAb ==
    (Dispatched /\ spec.strategies = {"ab_testing"}) => last.strategy = "ab-testing"

\* C18: when the metric query of a reconcile fails, the outcome follows
\* analysis.failurePolicy: with Pause the status is left as it is and the
\* reconcile ends in the error that makes the controller retry it; with
\* Continue the reconcile does not end in that error; with Rollback a status
\* with phase Failed is written
C18_QueryFailureFollowsPolicy ==
    (last.ran /\ last.metrics = "error")
    => /\ spec.failurePolicy = "Pause"
            => (status = last.observed /\ last.result = "MetricsEvaluationFailed")
       /\ spec.failurePolicy = "Continue" => last.result # "MetricsEvaluationFailed"
       /\ spec.failurePolicy = "Rollback" => WroteFailed

\* the canary step of the observed status began, with its pause, at the
\* instant in pauseStartTime, and less than warmupDuration has passed since
InStepWarmup(st, t) ==
    /\ "canary" \in spec.strategies /\ spec.analysis
    /\ ParseDuration(spec.warmupDuration).some
    /\ st.some /\ st.phase = "Progressing" /\ st.currentStepIndex.some
    /\ st.currentStepIndex.v + 1 \in DOMAIN spec.steps
    /\ spec.steps[st.currentStepIndex.v + 1].pause
    /\ ParseRfc3339(st.pauseStartTime).some
    /\ t - ParseRfc3339(st.pauseStartTime).v < ParseDuration(spec.warmupDuration).v

\* C20: in a reconcile that runs less than warmupDuration after the current
\* step began, whichever step that is, the metrics backend is not queried and
\* no status with phase Failed is written
C20_NoMetricFailureDuringStepWarmup ==
    (last.ran /\ InStepWarmup(last.observed, last.at))
    => (last.queries = <<>> /\ last.metrics = "none" /\ ~WroteFailed)


\* the duration d, counted from the experiment's startedAt, has elapsed at
\* the instant of the last evaluation
HasElapsed(d) ==
    /\ ParseDuration(d).some /\ ParseRfc3339(status.abStartedAt).some
    /\ evaluation.at - ParseRfc3339(status.abStartedAt).v >= ParseDuration(d).v

\* a query the last evaluation made was answered with an error
QueryFailed == \E n \in QueryNames : QueryOrder[n] <= evaluation.result.asked
                                      /\ ~evaluation.answers[n].ok

\* C19: the A/B evaluator signals conclusion only when the conclude-experiment
\* annotation is present, or maxDuration is configured and has elapsed since
\* startedAt, or minDuration (if configured) has elapsed, all four queries
\* succeeded, both sample counts are at least minSampleSize (default 30) and
\* the conclusion aggregator returned a winner; and never in an evaluation
\* in which a query failed
C19_ConcludesOnlyInThreeCases ==
    (evaluation.made /\ evaluation.result.should_conclude)
    => /\ \/ evaluation.annotated
          \/ abTesting.maxDuration.some /\ HasElapsed(abTesting.maxDuration)
          \/ /\ abTesting.minDuration.some => HasElapsed(abTesting.minDuration)
             /\ \A n \in QueryNames : evaluation.answers[n].ok
             /\ evaluation.answers["sample_a"].v >= UnwrapOr(abTesting.minSampleSize, 30)
             /\ evaluation.answers["sample_b"].v >= UnwrapOr(abTesting.minSampleSize, 30)
             /\ evaluation.result.winner # "None"
       /\ ~QueryFailed


\* the budgets of the last planner call
PlanSurge == ParseSurgeValue(SurgeOrDefault(plan.max_surge), plan.total_replicas)
PlanUnavailable ==
    ParseSurgeValue(UnavailableOrDefault(plan.max_unavailable), plan.total_replicas)

\* C21: for valid arguments the planner returns counts with stable >= 0,
\* canary >= 0 and
\* max(0, total - unavailable) <= stable + canary <= total + surge
C21_ReplicaConservation ==
    plan.called
    => /\ ~plan.panicked
       /\ plan.stable >= 0 /\ plan.canary >= 0
       /\ Max(0, plan.total_replicas - PlanUnavailable) <= plan.stable + plan.canary
       /\ plan.stable + plan.canary - plan.total_replicas <= PlanSurge


\* C22: a route patch changes only the backend list of the route's first
\* rule: the first rule's other fields (matches, filters) and the further
\* rules are after the patch what they were before it
C22_RoutePatchKeepsOtherFields ==
    [][(route.exists /\ route'.exists)
         => (route'.matches = route.matches /\ route'.rules = route.rules)]_vars


\* the last reconcile sent a patch of the given kind, and the store answered
\* it 404
RoutePatchNotFound ==
    /\ last.ran /\ ~route.exists /\ "routePatch" \notin last.faults
    /\ \E i \in DOMAIN last.writes : last.writes[i].kind = "route"
PatchNotFound(point) == last.ran /\ last.code = 404 /\ point \in last.faults
ScaleNotFound ==
    /\ PatchNotFound("rsWrite")
    /\ last.writes[Len(last.writes)].kind = "rs_scale"

EventTable(old_status, new_status) ==
    IF ~old_status.some /\ new_status.phase \in {"Progressing", "Preview", "Experimenting"}
    THEN <<[type |-> "service.deployed", ab |-> FALSE]>>
    ELSE IF ~old_status.some /\ new_status.phase = "Completed"
    THEN <<[type |-> "service.deployed", ab |-> FALSE],
           [type |-> "service.published", ab |-> FALSE]>>
    ELSE IF old_status.some /\ old_status.phase = "Progressing"
            /\ new_status.phase = "Progressing"
            /\ old_status.currentStepIndex # new_status.currentStepIndex
    THEN <<[type |-> "service.upgraded", ab |-> FALSE]>>
    ELSE IF new_status.phase = "Failed"
    THEN <<[type |-> "service.rolledback", ab |-> FALSE]>>
    ELSE IF old_status.some /\ old_status.phase = "Experimenting"
            /\ new_status.phase = "Concluded"
    THEN <<[type |-> "service.published", ab |-> TRUE]>>
    ELSE IF new_status.phase = "Completed"
    THEN <<[type |-> "service.published", ab |-> FALSE]>>
    ELSE <<>>

\* what the sent events are: their types and whether they carry the A/B block
SentEvents ==
    [i \in DOMAIN emission.events |->
        [type |-> EventType(emission.events[i]), ab |-> CarriesAbBlock(emission.events[i])]]

\* C24: the events sent for a status change are those of the table: no old
\* status to Progressing, Preview or Experimenting gives service.deployed; no
\* old status to Completed gives service.deployed then service.published;
\* Progressing to Progressing at another step gives service.upgraded; a change
\* to Failed gives service.rolledback; Experimenting to Concluded gives
\* service.published with the A/B block; another change to Completed gives
\* service.published; every other pair gives nothing
C24_EventsFollowTable ==
    (emission.made /\ emission.sink = "ok")
        => SentEvents = EventTable(emission.old_status, emission.new_status)

\* the emitter was called for a first status of phase Completed and sent
\* service.deployed, then service.published
C24_Witness ==
    /\ emission.made /\ emission.sink = "ok"
    /\ ~emission.old_status.some /\ emission.new_status.phase = "Completed"
    /\ emission.events = <<"service.deployed", "service.published">>


\* the prefix the occurrence types of a rollout are to carry, by the one
\* strategy the rollout names
ClaimedPrefix ==
    IF spec.strategies = {"canary"} THEN "canary"
    ELSE IF spec.strategies = {"blue_green"} THEN "bluegreen"
    ELSE IF spec.strategies = {"ab_testing"} THEN "abtesting"
    ELSE "rolling"
OccurrenceActions == {"progressing", "paused", "completed", "failed"}

\* C26: every occurrence a reconcile emits for a phase transition has the
\* type prefix.rollout.action, the prefix canary, bluegreen, abtesting or
\* rolling by the rollout's strategy, the action progressing, paused,
\* completed or failed
C26_OccurrenceTypeByStrategy ==
    (last.ran /\ Cardinality(spec.strategies) = 1)
        => \A i \in DOMAIN last.occurrences :
              last.occurrences[i].type[2] = "rollout"
                 => /\ last.occurrences[i].type[1] = ClaimedPrefix
                    /\ last.occurrences[i].type[3] \in OccurrenceActions


\* the last reconcile marked the rollout Failed for its progress deadline:
\* the status it sent, and the failure occurrences it emitted
DeadlineWrites ==
    {i \in DOMAIN last.writes :
        /\ last.writes[i].kind = "status" /\ last.writes[i].st.phase = "Failed"
        /\ Contains(last.writes[i].st.message, "deadline exceeded")}
FailureOccurrences ==
    {i \in DOMAIN last.occurrences :
        last.occurrences[i].type[2] = "rollout" /\ last.occurrences[i].new = "Failed"}

\* C27: in the reconcile that marks a rollout Failed because the progress
\* deadline was exceeded, the failure occurrence has an error block built from
\* the deadline message written in that reconcile, and its possibleCauses
\* contain "Pods failing readiness probes"
C27_DeadlineOccurrenceNamesReadinessProbes ==
    (last.ran /\ DeadlineWrites # {})
        => /\ FailureOccurrences # {}
           /\ \A i \in FailureOccurrences : \A w \in DeadlineWrites :
                 /\ last.occurrences[i].error.some
                 /\ last.occurrences[i].error.message = last.writes[w].st.message
                 /\ "Pods failing readiness probes" \in last.occurrences[i].error.possible_causes


\* the side channels of a reconcile: the event sink, the occurrence stream
\* and the removal of the promote annotation
SideChannels == {"sink", "occurrenceWrite", "annotationPatch"}

\* the result of a reconcile: the status patches sent, the status stored, what
\* reconcile returned and the requeue interval
ResultPart(o) ==
    [patches |-> SelectSeq(o.writes, LAMBDA w : w.kind = "status"),
     status |-> o.status, result |-> o.result, requeue |-> o.requeue]

\* C25: whatever a reconcile observes and is answered, it sends the same
\* status patch, writes the same phase and returns the same result and requeue
\* interval when its event sends, its occurrence writes and its removal of the
\* promote annotation fail as when they succeed, and when the route object is
\* missing as when it is there
C25_SideChannelsChangeNothing ==
    \A m \in MetricAnswersFor(Observed), ab \in AbAnswersFor(Observed) :
      \A a \in (IF m = "error" THEN {"Continue"} ELSE AdvisorAnswersFor(Observed)) :
        \A clean \in {Reconcile(Observed, Env(m, a, ab, {}))} :
          /\ \A F \in SUBSET (clean.asked \cap SideChannels) :
                ResultPart(Reconcile(Observed, Env(m, a, ab, F))) = ResultPart(clean)
          /\ route.exists =>
                ResultPart(Reconcile([Observed EXCEPT !.route = NoRoute], Env(m, a, ab, {})))
                    = ResultPart(clean)

\* a reconcile whose event send failed wrote the first status and returned
\* without error
C25_Witness ==
    /\ last.ran /\ last.faults = {"sink"} /\ ~last.observed.some
    /\ last.result = "ok" /\ status.some


\* the status the last reconcile wrote: the last status patch it sent, or the
\* status it observed when it sent none
WrittenStatus ==
    LET patches == SelectSeq(last.writes, LAMBDA w : w.kind = "status")
    IN IF patches = <<>> THEN last.observed ELSE patches[Len(patches)].st

\* the duration of the timed pause a status is at, when it is at a step with
\* one and has a pauseStartTime
TimedPauseOf(st) ==
    IF "canary" \in spec.strategies /\ st.some /\ st.currentStepIndex.some
       /\ st.currentStepIndex.v >= 0 /\ st.currentStepIndex.v < Len(spec.steps)
       /\ spec.steps[st.currentStepIndex.v + 1].pause
       /\ ParseRfc3339(st.pauseStartTime).some
    THEN ParseDuration(spec.steps[st.currentStepIndex.v + 1].duration)
    ELSE None

\* the interval C28 gives: the rest of the pause, no less than 5 s and no
\* more than 300 s, or 30 s
ClaimedRequeue ==
    IF TimedPauseOf(WrittenStatus).some
    THEN LET rest == TimedPauseOf(WrittenStatus).v
                       - (last.at - ParseRfc3339(WrittenStatus.pauseStartTime).v)
         IN IF rest < 5 THEN 5 ELSE IF rest > 300 THEN 300 ELSE rest
    ELSE 30

C29_OneAdvisorPerKey ==
    \A k \in AdvisorKeys :
        /\ resolving.constructed[k] <= 1
        /\ Cardinality(resolving.returned[k]) <= 1

\* C30: a valid Rollout at v1alpha1, converted to v1beta1 and the result
\* converted back to v1alpha1, is the object it was, whether or not it sets
\* maxSurge, maxUnavailable or progressDeadlineSeconds
RoundTrip == <<"v1alpha1", "v1beta1", "v1alpha1">>

C30_RoundTripIsIdentity ==
    conversion.trail = RoundTrip => conversion.object = conversion.original

\* C31: converting an object from v1beta1 to v1alpha1 keeps the values of
\* maxSurge, maxUnavailable and progressDeadlineSeconds, so that converting
\* v1beta1 to v1alpha1 and back to v1beta1 gives the values the object had
\* for these three fields, not the defaults
KeepsNewFields ==
    \A f \in NewFields \cap DOMAIN conversion.original.spec :
        /\ f \in DOMAIN conversion.object.spec
        /\ conversion.object.spec[f] = conversion.original.spec[f]

C31_DowngradeKeepsNewFields ==
    (conversion.trail \in {<<"v1beta1", "v1alpha1">>, <<"v1beta1", "v1alpha1", "v1beta1">>})
        => KeepsNewFields

\* C32: the next status of every strategy is a function of the observed
\* rollout and the instant of the injected clock: whatever the wall clock
\* shows, two calls with the same rollout and the same injected instant give
\* the same status
ObservedRollout == Rollout(spec, annotations, status)

C32_NextStatusIgnoresWallClock ==
    (ValidateRollout(ObservedRollout) = "ok") =>
        \A wall1, wall2 \in 0..MaxTime :
            ComputeNextStatus(SelectStrategy(ObservedRollout), ObservedRollout, now, wall1)
                = ComputeNextStatus(SelectStrategy(ObservedRollout), ObservedRollout, now, wall2)

\* C33: the promote annotation is a control signal only with the value
\* "true": a promote annotation present with any other value causes no phase
\* transition, here of an A/B rollout in phase Concluded
C33_OnlyTrueValuePromotes ==
    (handling.made /\ handling.promote \notin {"absent", "true"})
        => handling.next =
               AbComputeNextStatus(
                   Rollout(AbRolloutSpec, [promote |-> "absent"], handling.observed),
                   handling.now, handling.wall)

\* C34: a reconcile writes to the object store only while its instance is
\* the leader: once the instance has lost leadership after the leader gate,
\* the reconcile sends no further replica-set, route, status or annotation
\* write
C34_WritesOnlyWhileLeader == ~flight.asFollower

\* the reconcile recorded in rec observed a canary at a pause step whose
\* duration had not elapsed (or that has none), with the promote annotation
\* "true", and left the rollout past that step
PromotedPastPause(rec, after) ==
    /\ rec.ran /\ rec.promote = "true"
    /\ rec.observed.some /\ rec.observed.phase = "Progressing"
    /\ rec.observed.currentStepIndex.some
    /\ rec.observed.currentStepIndex.v < Len(spec.steps)
    /\ LET st == rec.observed
           step == spec.steps[st.currentStepIndex.v + 1]
       IN /\ step.pause
          /\ ~(/\ ParseDuration(step.duration).some
               /\ ParseRfc3339(st.pauseStartTime).some
               /\ rec.at - ParseRfc3339(st.pauseStartTime).v >= ParseDuration(step.duration).v)
    /\ after.some
    /\ \/ after.phase = "Completed"
       \/ /\ after.currentStepIndex.some
          /\ after.currentStepIndex.v > rec.observed.currentStepIndex.v

\* C35: one setting of the promote annotation moves a canary rollout past at
\* most one pause step: when a reconcile has advanced because of the
\* annotation and the next thing to happen is another reconcile (the user has
\* not set the annotation again), that reconcile does not advance past a
\* pause step whose duration has not elapsed
C35_OnePromoteOnePause ==
    [][~(PromotedPastPause(last, status) /\ PromotedPastPause(last', status'))]_vars

\* the last reconcile failed the rollout on the progress deadline
FailedOnDeadline ==
    /\ last.ran /\ WroteFailed /\ last.metrics # "unhealthy"

\* C36: the progress deadline measures time without progress: a canary that
\* advanced to its current step (a pause step, whose pauseStartTime is the
\* instant of the advance) no more than progressDeadlineSeconds ago is not
\* failed by the deadline check, however long ago the rollout started
C36_DeadlineCountsFromLastProgress ==
    (/\ last.ran /\ "canary" \in spec.strategies /\ spec.progressDeadlineSeconds.some
     /\ last.observed.some /\ last.observed.phase = "Progressing"
     /\ last.observed.currentStepIndex.some /\ last.observed.currentStepIndex.v >= 1
     /\ ParseRfc3339(last.observed.pauseStartTime).some
     /\ last.at - ParseRfc3339(last.observed.pauseStartTime).v
            <= spec.progressDeadlineSeconds.v)
    => ~FailedOnDeadline

\* C37: once a canary rollout has been marked Failed, every later reconcile
\* (the spec unchanged) leaves the route at 100% stable and 0% canary
C37_FailedRoutesAllToStable ==
    (/\ last.ran /\ NoFaults /\ last.result = "ok"
     /\ "canary" \in spec.strategies /\ spec.canaryTrafficRouting
     /\ last.observed.some /\ last.observed.phase = "Failed"
     /\ route.exists)
    => (route.first = 100 /\ route.second = 0)

\* the reconcile recorded in rec sent a service.published event
SentPublished(rec) ==
    \E i \in DOMAIN rec.events : EventType(rec.events[i]) = "service.published"

\* C38: service.published is emitted at most once for a rollout whose spec
\* does not change: once a status with phase Completed is stored, no later
\* reconcile sends another service.published event
C38_PublishedAtMostOnce ==
    [][(status.some /\ status.phase = "Completed") => ~SentPublished(last')]_vars

\* C39: a canary with a valid spec whose pauses all have a duration, without
\* analysis and without a progress deadline, reaches phase Completed without
\* any user action, when reconciles keep being run as requeued, failed
\* patches are retried and the clock advances
C39_TimedCanaryCompletes == <>(status.some /\ status.phase = "Completed")

\* C39 happens: a canary with two timed pauses has completed, after both
\* pauses (10 s and 30 s) ran out
C39_Witness ==
    /\ spec.name = "canary-two-pauses"
    /\ status.some /\ status.phase = "Completed"
    /\ last.ran /\ last.result = "ok"
    /\ now >= 40


\* a reconcile whose status patch failed after it had sent events
PatchFailedAfterEvent(rec) ==
    /\ rec.ran /\ rec.result = "KubeError"
    /\ "statusPatch" \in rec.faults /\ "sink" \notin rec.faults
    /\ rec.events # <<>>

\* the reconcile recorded as after is run right after the one recorded as
\* before, on the same stored status, the same annotation, at the same instant
RetryOf(before, after) ==
    /\ after.ran /\ after # before
    /\ after.observed = before.observed
    /\ after.promote = before.promote
    /\ after.at = before.at

\* C40: when the status patch of a reconcile fails after the event of the
\* transition was sent, a reconcile run again on the unchanged observed
\* state sends none of the events the failed one sent
C40_RetrySendsNoSecondEvent ==
    [][(PatchFailedAfterEvent(last) /\ RetryOf(last, last'))
         => \A i \in DOMAIN last.events, j \in DOMAIN last'.events :
                last'.events[j] # last.events[i]]_vars

=============================================================================
